---- MODULE Spec2Model ----
(***************************************************************************)
(* A model of the vibration feature extractor (cpm::FeatureExtractor):     *)
(* the sampling-rate configuration it holds, the computation methods, and  *)
(* the calls made on it.                                                   *)
(*                                                                         *)
(* A C++ double is modelled as an integer.  A finite value v stands for    *)
(* the number v / Scale (binary fixed point, results of * / sqrt truncated *)
(* toward zero); three values outside the finite range stand for the IEEE  *)
(* specials +Inf, -Inf and NaN, with the IEEE rules for comparison and     *)
(* arithmetic on them.                                                     *)
(***************************************************************************)
EXTENDS Integers, Sequences, FiniteSets, TLC

\* ------------------------------------------------------------------ bounds

\* Longest sample window drawn as an input.
MaxLen == 4

\* Number of extractor objects the callers may construct.
NumExt == 2

\* Number of threads that call extract_all concurrently.
NumCalls == 2

\* Fixed-point resolution: a finite double v is the number v / Scale.
Scale == 16

\* ------------------------------------------------------------------ state

VARIABLES
    ext,      \* ext[e]: whether extractor object e exists, and its sample_rate_
    lastOk,   \* lastOk[e]: e's latest successful construction or update, and its argument
    last,     \* the configuration or computation call that completed most recently
    calls,    \* calls[c]: the extract_all call thread c is in, and how far it is
    xbuf,     \* xbuf[c]: the complex buffer x of the compute_fft that call c is in
    fin,      \* the window and sampling rate a computation method is applied to
    fout      \* what that method did and returned

vars == <<ext, lastOk, last, calls, xbuf, fin, fout>>

Ext == 1..NumExt
Calls == 1..NumCalls

\* ------------------------------------------------------------------ evaluation

\* The one element of a singleton set.  {E(v) : v \in {e}} evaluates e once and
\* names its value v: the model's form of a C++ local assigned once.
TheOnly(S) == CHOOSE v \in S : TRUE

\* acc after  for (i = lo; i <= hi; ++i) acc = Body(acc, i);
RECURSIVE Loop(_, _, _, _)
Loop(Body(_, _), acc, i, hi) ==
    IF i > hi THEN acc
    ELSE TheOnly({Loop(Body, v, j, hi) : v \in {Body(acc, i)}, j \in {i + 1}})

\* ------------------------------------------------------------------ doubles

DInf == 2^30
DNegInf == 0 - DInf
DNaN == DInf + 1

IsNaN(a) == a = DNaN
IsInf(a) == a = DInf \/ a = DNegInf
IsFin(a) == ~IsNaN(a) /\ ~IsInf(a)

\* The double nearest to the integer n (a literal, or a size_t cast to double).
D(n) == n * Scale

Sgn(a) == IF a < 0 THEN -1 ELSE IF a > 0 THEN 1 ELSE 0
Mag(a) == IF a < 0 THEN 0 - a ELSE a

\* The operations on doubles are functions: they take their operands by value.

\* Comparisons: every comparison with a NaN operand is false.
DLt[a \in Int, b \in Int] == ~IsNaN(a) /\ ~IsNaN(b) /\ a < b
DLe[a \in Int, b \in Int] == ~IsNaN(a) /\ ~IsNaN(b) /\ a <= b
DGe[a \in Int, b \in Int] == ~IsNaN(a) /\ ~IsNaN(b) /\ a >= b

DNeg[a \in Int] == IF IsNaN(a) THEN DNaN ELSE 0 - a

DAdd[a \in Int, b \in Int] ==
    IF IsNaN(a) \/ IsNaN(b) THEN DNaN
    ELSE IF IsInf(a) /\ IsInf(b) THEN (IF a = b THEN a ELSE DNaN)
    ELSE IF IsInf(a) THEN a
    ELSE IF IsInf(b) THEN b
    ELSE a + b

DSub[a \in Int, b \in Int] == DAdd[a, DNeg[b]]

\* a * b / Scale for a, b >= 0, truncated, with no intermediate beyond the result.
MulMag(a, b) == (a \div Scale) * b + ((a % Scale) * b) \div Scale

DMul[a \in Int, b \in Int] ==
    IF IsNaN(a) \/ IsNaN(b) THEN DNaN
    ELSE IF IsInf(a) \/ IsInf(b)
         THEN (IF a = 0 \/ b = 0 THEN DNaN
               ELSE IF Sgn(a) = Sgn(b) THEN DInf ELSE DNegInf)
    ELSE Sgn(a) * Sgn(b) * MulMag(Mag(a), Mag(b))

DDiv[a \in Int, b \in Int] ==
    IF IsNaN(a) \/ IsNaN(b) THEN DNaN
    ELSE IF IsInf(a) /\ IsInf(b) THEN DNaN
    ELSE IF IsInf(a) THEN (IF Sgn(a) * Sgn(b) < 0 THEN DNegInf ELSE DInf)
    ELSE IF IsInf(b) THEN 0
    ELSE IF b = 0 THEN (IF a = 0 THEN DNaN ELSE IF a > 0 THEN DInf ELSE DNegInf)
    ELSE Sgn(a) * Sgn(b) * ((Mag(a) * Scale) \div Mag(b))

DAbs[a \in Int] == IF IsNaN(a) THEN DNaN ELSE Mag(a)

\* std::max(a, b) is (a < b) ? b : a.
DMax[a \in Int, b \in Int] == IF DLt[a, b] THEN b ELSE a

\* Largest r with r * r <= n, for 0 <= n < 2^30, one binary digit at a time.
Isqrt(n) ==
    Loop(LAMBDA r, k : IF (r + 2^(15 - k)) * (r + 2^(15 - k)) <= n
                       THEN r + 2^(15 - k) ELSE r,
         0, 1, 15)

DSqrt[a \in Int] ==
    IF IsNaN(a) THEN DNaN
    ELSE IF a < 0 THEN DNaN
    ELSE IF IsInf(a) THEN DInf
    ELSE Isqrt(a * Scale)

\* The comparison threshold 1e-10: below the resolution 1/Scale, so x < 1e-10
\* holds of a representable x exactly when x is below the smallest positive one.
Eps == 1

\* ------------------------------------------------------------------ inputs

\* Sample values the windows are built from.
Samples == {0 - D(1), 0, D(1)}

RECURSIVE SeqsUpTo(_, _)
SeqsUpTo(S, n) ==
    IF n = 0 THEN {<<>>}
    ELSE LET shorter == SeqsUpTo(S, n - 1)
         IN  shorter \cup {Append(w, s) : w \in {v \in shorter : Len(v) = n - 1}, s \in S}

\* Every sample window of length 0..MaxLen.
Windows == SeqsUpTo(Samples, MaxLen)

\* ------------------------------------------------------------------ time domain

\* compute_rms without its test for the empty window.
compute_rms_unguarded(signal) ==
    DSqrt[DDiv[Loop(LAMBDA acc, i : DAdd[acc, DMul[signal[i], signal[i]]],
                    0, 1, Len(signal)),
               D(Len(signal))]]

\* compute_rms without the division by the number of samples.
compute_rms_ofSum(signal) ==
    IF Len(signal) = 0 THEN 0
    ELSE DSqrt[Loop(LAMBDA acc, i : DAdd[acc, DMul[signal[i], signal[i]]],
                    0, 1, Len(signal))]

compute_rms(signal) ==
    IF Len(signal) = 0 THEN 0
    ELSE LET sum_sq == Loop(LAMBDA acc, i : DAdd[acc, DMul[signal[i], signal[i]]],
                            0, 1, Len(signal))
         IN  DSqrt[DDiv[sum_sq, D(Len(signal))]]

\* compute_peak without std::abs: the largest sample, or 0.
compute_peak_signed(signal) ==
    IF Len(signal) = 0 THEN 0
    ELSE Loop(LAMBDA max_abs, i : DMax[max_abs, signal[i]], 0, 1, Len(signal))

compute_peak(signal) ==
    IF Len(signal) = 0 THEN 0
    ELSE Loop(LAMBDA max_abs, i : DMax[max_abs, DAbs[signal[i]]], 0, 1, Len(signal))

\* compute_crest_factor without the test of rms against 1e-10.
compute_crest_factor_unguarded(signal) ==
    DDiv[compute_peak(signal), compute_rms(signal)]

compute_crest_factor(signal) ==
    TheOnly({IF DLt[rms, Eps] THEN 0 ELSE DDiv[compute_peak(signal), rms] :
             rms \in {compute_rms(signal)}})

\* mean = (sum of the samples) / n
Mean(signal) ==
    DDiv[Loop(LAMBDA sum, i : DAdd[sum, signal[i]], 0, 1, Len(signal)), D(Len(signal))]

\* (s - mean)^k for k in 2..4, as the code multiplies it out.
Power(s, mean, k) ==
    TheOnly({IF k = 2 THEN diff2
             ELSE IF k = 3 THEN DMul[diff2, diff]
             ELSE DMul[diff2, diff2] :
             diff2 \in {DMul[diff, diff] : diff \in {DSub[s, mean]}},
             diff \in {DSub[s, mean]}})

\* The central moment with the divisor n - 1 of a sample estimate.
Moment_unbiased(signal, k) ==
    TheOnly({DDiv[Loop(LAMBDA m, i : DAdd[m, Power(signal[i], mean, k)],
                       0, 1, Len(signal)),
                  D(Len(signal) - 1)] :
             mean \in {Mean(signal)}})

\* The k-th central moment: (sum over the samples, in order, of (s - mean)^k) / n.
Moment(signal, k) ==
    TheOnly({DDiv[Loop(LAMBDA m, i : DAdd[m, Power(signal[i], mean, k)],
                       0, 1, Len(signal)),
                  D(Len(signal))] :
             mean \in {Mean(signal)}})

compute_kurtosis(signal) ==
    IF Len(signal) < 4 THEN 0
    ELSE TheOnly({IF DLt[m2, Eps] THEN 0
                  ELSE DSub[DDiv[Moment(signal, 4), DMul[m2, m2]], D(3)] :
                  m2 \in {Moment(signal, 2)}})

\* compute_skewness dividing the third moment by the variance.
compute_skewness_byVariance(signal) ==
    IF Len(signal) < 3 THEN 0
    ELSE TheOnly({IF DLt[std_dev, Eps] THEN 0
                  ELSE DDiv[Moment(signal, 3), DMul[std_dev, std_dev]] :
                  std_dev \in {DSqrt[Moment(signal, 2)]}})

compute_skewness(signal) ==
    IF Len(signal) < 3 THEN 0
    ELSE TheOnly({IF DLt[std_dev, Eps] THEN 0
                  ELSE DDiv[Moment(signal, 3), DMul[DMul[std_dev, std_dev], std_dev]] :
                  std_dev \in {DSqrt[Moment(signal, 2)]}})

\* ------------------------------------------------------------------ transform

\* A std::complex<double> is the pair <<re, im>>.
Complex == Int \X Int

CAdd[u \in Complex, t \in Complex] == <<DAdd[u[1], t[1]], DAdd[u[2], t[2]]>>
CSub[u \in Complex, t \in Complex] == <<DSub[u[1], t[1]], DSub[u[2], t[2]]>>
CMul[u \in Complex, t \in Complex] ==
    <<DSub[DMul[u[1], t[1]], DMul[u[2], t[2]]],
      DAdd[DMul[u[1], t[2]], DMul[u[2], t[1]]]>>
\* std::abs of a complex number
CAbs[u \in Complex] == DSqrt[DAdd[DMul[u[1], u[1]], DMul[u[2], u[2]]]]

RECURSIVE next_power_of_2_from(_, _)
next_power_of_2_from(p, n) ==
    IF p < n THEN TheOnly({next_power_of_2_from(q, n) : q \in {2 * p}}) ELSE p

\* The loop with the test p <= n.
RECURSIVE next_power_of_2_past(_, _)
next_power_of_2_past(p, n) ==
    IF p <= n THEN TheOnly({next_power_of_2_past(q, n) : q \in {2 * p}}) ELSE p

next_power_of_2_strict(n) == next_power_of_2_past(1, n)

\* p = 1; while (p < n) p <<= 1; return p
next_power_of_2(n) == next_power_of_2_from(1, n)

\* result after bits rounds of  result = (result << 1) | (n & 1); n >>= 1
\* (round i takes bit i - 1 of n).
bit_reverse(n, bits) ==
    Loop(LAMBDA result, i : 2 * result + ((n \div 2^(i - 1)) % 2), 0, 1, bits)

RECURSIVE BitsFrom(_, _)
BitsFrom(temp, bits) ==
    IF temp > 1 THEN TheOnly({BitsFrom(t, b) : t \in {temp \div 2}, b \in {bits + 1}})
    ELSE bits

\* bits = 0; for (temp = n; temp > 1; temp >>= 1) ++bits
BitsOf(n) == BitsFrom(n, 0)

\* x[i] of the code is x[i + 1] here (sequences start at 1).
Swap(x, i, j) == [x EXCEPT ![i + 1] = x[j + 1], ![j + 1] = x[i + 1]]

\* The buffer after  for (i = 0; i < n; ++i) { j = bit_reverse(i, bits);
\* if (i < j) swap(x[i], x[j]); }
BitReversePermute(x, bits) ==
    Loop(LAMBDA px, i : TheOnly({IF i < j THEN Swap(px, i, j) ELSE px :
                                 j \in {bit_reverse(i, bits)}}),
         x, 0, Len(x) - 1)

RECURSIVE CosFrom(_, _)
CosFrom(c, len) ==
    IF len <= 2 THEN c
    ELSE TheOnly({CosFrom(h, len \div 2) : h \in {DSqrt[DDiv[DAdd[D(1), c], D(2)]]}})

\* cos(2*pi/len) for len = 2, 4, 8, ...: -1 at 2 and, by the half-angle identity
\* (rounded like every sqrt), sqrt((1 + cos(2 * angle)) / 2) above.
Cos2Pi(len) == CosFrom(0 - D(1), len)

\* sin(2*pi/len): 0 at 2 and sqrt((1 - cos(2 * angle)) / 2) above.
Sin2Pi(len) ==
    IF len <= 2 THEN 0
    ELSE DSqrt[DDiv[DSub[D(1), Cos2Pi(len \div 2)], D(2)]]

\* wlen with the angle +2*pi/len: the inverse transform's twiddle.
Twiddle_positiveAngle(len) == <<Cos2Pi(len), Sin2Pi(len)>>

\* wlen = (cos(angle), sin(angle)) with angle = -2*pi/len
Twiddle(len) == <<Cos2Pi(len), DNeg[Sin2Pi(len)]>>

\* x after the butterfly on x[i + j] and x[i + j + len/2] with twiddle w.
Butterfly(x, len, i, j, w) ==
    TheOnly({[x EXCEPT ![i + j + 1] = CAdd[u, t],
                       ![i + j + (len \div 2) + 1] = CSub[u, t]] :
             u \in {x[i + j + 1]},
             t \in {CMul[w, x[i + j + (len \div 2) + 1]]}})

\* <<x, w>> after the inner loop  for (j = 0; j < len/2; ++j) of block i.
Block(x, len, wlen, i) ==
    Loop(LAMBDA xw, j : <<Butterfly(xw[1], len, i, j, xw[2]), CMul[xw[2], wlen]>>,
         <<x, <<D(1), 0>> >>, 0, (len \div 2) - 1)[1]

\* x after the stage for block size len: for (i = 0; i < n; i += len),
\* block number b being i = b * len.
Stage(x, len) ==
    TheOnly({Loop(LAMBDA sx, b : Block(sx, len, wlen, b * len),
                  x, 0, (Len(x) \div len) - 1) :
             wlen \in {Twiddle(len)}})

\* x after the stages  for (len = 2; len <= n; len <<= 1), stage s being len = 2^s.
Stages(x, bits) == Loop(LAMBDA sx, s : Stage(sx, 2^s), x, 1, bits)

fft_recursive(x) ==
    IF Len(x) <= 1 THEN x
    ELSE TheOnly({Stages(BitReversePermute(x, bits), bits) : bits \in {BitsOf(Len(x))}})

\* The buffer compute_fft transforms: n zeros, then the samples copied in.
PaddedBuffer(signal) ==
    TheOnly({[i \in 1..n |-> IF i <= Len(signal) THEN <<signal[i], 0>> ELSE <<0, 0>>] :
             n \in {next_power_of_2(Len(signal))}})

\* The spectrum with the bin at n / 2 kept: half_n = n / 2 + 1.
Spectrum_withNyquist(x, sample_rate) ==
    TheOnly({<<[i \in 1..half_n |->
                  TheOnly({IF i = 1 THEN DDiv[m, D(2)] ELSE m :
                           m \in {DDiv[DMul[CAbs[x[i]], D(2)], D(n)]}})],
               [i \in 1..half_n |-> DMul[D(i - 1), freq_resolution]]>> :
             n \in {Len(x)},
             half_n \in {Len(x) \div 2 + 1},
             freq_resolution \in {DDiv[sample_rate, D(Len(x))]}})

\* The spectrum with the DC bin left doubled like the others.
Spectrum_dcDoubled(x, sample_rate) ==
    TheOnly({<<[i \in 1..half_n |-> DDiv[DMul[CAbs[x[i]], D(2)], D(n)]],
               [i \in 1..half_n |-> DMul[D(i - 1), freq_resolution]]>> :
             n \in {Len(x)},
             half_n \in {Len(x) \div 2},
             freq_resolution \in {DDiv[sample_rate, D(Len(x))]}})

\* The spectrum with the bins laid out over the whole rate: step sample_rate / half_n.
Spectrum_fullRateAxis(x, sample_rate) ==
    TheOnly({<<[i \in 1..half_n |->
                  TheOnly({IF i = 1 THEN DDiv[m, D(2)] ELSE m :
                           m \in {DDiv[DMul[CAbs[x[i]], D(2)], D(n)]}})],
               [i \in 1..half_n |-> DMul[D(i - 1), freq_resolution]]>> :
             n \in {Len(x)},
             half_n \in {Len(x) \div 2},
             freq_resolution \in {DDiv[sample_rate, D(Len(x) \div 2)]}})

\* The magnitude and frequency vectors read off a transformed buffer x: every bin
\* doubled and divided by n, then the DC bin halved.
Spectrum(x, sample_rate) ==
    TheOnly({<<[i \in 1..half_n |->
                  TheOnly({IF i = 1 THEN DDiv[m, D(2)] ELSE m :
                           m \in {DDiv[DMul[CAbs[x[i]], D(2)], D(n)]}})],
               [i \in 1..half_n |-> DMul[D(i - 1), freq_resolution]]>> :
             n \in {Len(x)},
             half_n \in {Len(x) \div 2},
             freq_resolution \in {DDiv[sample_rate, D(Len(x))]}})

compute_fft(signal, sample_rate) ==
    IF Len(signal) = 0 THEN << <<>>, <<>> >>
    ELSE TheOnly({Spectrum(x, sample_rate) : x \in {fft_recursive(PaddedBuffer(signal))}})

\* ------------------------------------------------------------------ spectral statistics

Min2(a, b) == IF a < b THEN a ELSE b

\* power = magnitudes[i] * magnitudes[i]
BinPower(magnitudes, i) == DMul[magnitudes[i], magnitudes[i]]

\* total_power: the sum of the bin powers, for i below both sizes.
TotalPower(magnitudes, frequencies) ==
    Loop(LAMBDA total_power, i : DAdd[total_power, BinPower(magnitudes, i)],
         0, 1, Min2(Len(magnitudes), Len(frequencies)))

\* compute_spectral_centroid weighting each frequency by the magnitude instead of
\* the power.
compute_spectral_centroid_byMagnitude(magnitudes, frequencies) ==
    IF Len(magnitudes) = 0 \/ Len(frequencies) = 0 THEN 0
    ELSE TheOnly({IF DLt[total_power, Eps] THEN 0
                  ELSE DDiv[Loop(LAMBDA weighted_sum, i :
                                     DAdd[weighted_sum,
                                          DMul[frequencies[i], DAbs[magnitudes[i]]]],
                                 0, 1, Min2(Len(magnitudes), Len(frequencies))),
                            Loop(LAMBDA total, i : DAdd[total, DAbs[magnitudes[i]]],
                                 0, 1, Min2(Len(magnitudes), Len(frequencies)))] :
                  total_power \in {TotalPower(magnitudes, frequencies)}})

compute_spectral_centroid(magnitudes, frequencies) ==
    IF Len(magnitudes) = 0 \/ Len(frequencies) = 0 THEN 0
    ELSE TheOnly({IF DLt[total_power, Eps] THEN 0
                  ELSE DDiv[Loop(LAMBDA weighted_sum, i :
                                     DAdd[weighted_sum,
                                          DMul[frequencies[i], BinPower(magnitudes, i)]],
                                 0, 1, Min2(Len(magnitudes), Len(frequencies))),
                            total_power] :
                  total_power \in {TotalPower(magnitudes, frequencies)}})

\* The spread term taken around frequency 0 instead of the centroid passed in.
SpreadTerm_aroundZero(magnitudes, frequencies, centroid, i) ==
    DMul[DMul[frequencies[i], frequencies[i]], BinPower(magnitudes, i)]

\* diff * diff * power for bin i
SpreadTerm(magnitudes, frequencies, centroid, i) ==
    TheOnly({DMul[DMul[diff, diff], BinPower(magnitudes, i)] :
             diff \in {DSub[frequencies[i], centroid]}})

compute_spectral_spread(magnitudes, frequencies, centroid) ==
    IF Len(magnitudes) = 0 \/ Len(frequencies) = 0 THEN 0
    ELSE TheOnly({IF DLt[total_power, Eps] THEN 0
                  ELSE DSqrt[DDiv[Loop(LAMBDA weighted_var, i :
                                           DAdd[weighted_var,
                                                SpreadTerm(magnitudes, frequencies,
                                                           centroid, i)],
                                       0, 1, Min2(Len(magnitudes), Len(frequencies))),
                                  total_power]] :
                  total_power \in {TotalPower(magnitudes, frequencies)}})

\* Frequency bands [low, high) in Hz.
FREQ_BANDS == << <<D(0), D(100)>>, <<D(100), D(500)>>, <<D(500), D(1000)>>,
                 <<D(1000), D(2000)>>, <<D(2000), D(10000)>> >>

\* The band test with freq > low: a frequency at a band's lower edge is in no band.
BandOf_aboveLowerEdge(freq) ==
    LET hit == {b \in 1..Len(FREQ_BANDS) :
                   DLt[FREQ_BANDS[b][1], freq] /\ DLt[freq, FREQ_BANDS[b][2]]}
    IN  IF hit = {} THEN 0
        ELSE CHOOSE b \in hit : \A c \in hit : b <= c

\* The first band, in order, whose interval holds freq; 0 when none does.
BandOf(freq) ==
    LET hit == {b \in 1..Len(FREQ_BANDS) :
                   DGe[freq, FREQ_BANDS[b][1]] /\ DLt[freq, FREQ_BANDS[b][2]]}
    IN  IF hit = {} THEN 0
        ELSE CHOOSE b \in hit : \A c \in hit : b <= c

\* bandpowers after bin i: its power added to its band, if it has one.
AddBin(bandpowers, magnitudes, frequencies, i) ==
    TheOnly({IF b = 0 THEN bandpowers
             ELSE [bandpowers EXCEPT ![b] = DAdd[bandpowers[b], BinPower(magnitudes, i)]] :
             b \in {BandOf(frequencies[i])}})

\* The band powers kept in a static vector that is not cleared: a call starts
\* from the sums an earlier call left.
ZeroBandpowers_stale ==
    IF \E c \in Calls : calls[c].pc = "done"
    THEN calls[CHOOSE c \in Calls : calls[c].pc = "done"].features.bandpowers
    ELSE [b \in 1..Len(FREQ_BANDS) |-> 0]

\* std::vector<double> bandpowers(FREQ_BANDS.size(), 0.0): a fresh vector of zeros.
ZeroBandpowers == [b \in 1..Len(FREQ_BANDS) |-> 0]

compute_bandpower(magnitudes, frequencies) ==
    IF Len(magnitudes) = 0 \/ Len(frequencies) = 0
    THEN ZeroBandpowers
    ELSE Loop(LAMBDA bandpowers, i : AddBin(bandpowers, magnitudes, frequencies, i),
              ZeroBandpowers,
              1, Min2(Len(magnitudes), Len(frequencies)))

get_band_names ==
    <<"0-100 Hz", "100-500 Hz", "500-1000 Hz", "1000-2000 Hz", "2000+ Hz">>

\* ------------------------------------------------------------------ extract_all

\* A double that has not been assigned (a member of a default-initialised struct).
Indeterminate == DNaN + 1

\* SignalFeatures features;  the scalars unassigned, the vectors empty.
SignalFeatures ==
    [rms |-> Indeterminate, peak |-> Indeterminate, crest_factor |-> Indeterminate,
     kurtosis |-> Indeterminate, skewness |-> Indeterminate,
     spectral_centroid |-> Indeterminate, spectral_spread |-> Indeterminate,
     fft_magnitude |-> <<>>, fft_frequencies |-> <<>>,
     bandpowers |-> <<>>, band_names |-> <<>>]

\* The time-domain assignments with the one to skewness left out.
TimeDomain_noSkewness(features, signal) ==
    [features EXCEPT !.rms = compute_rms(signal),
                     !.peak = compute_peak(signal),
                     !.crest_factor = compute_crest_factor(signal),
                     !.kurtosis = compute_kurtosis(signal)]

\* features after the time-domain assignments.
TimeDomain(features, signal) ==
    [features EXCEPT !.rms = compute_rms(signal),
                     !.peak = compute_peak(signal),
                     !.crest_factor = compute_crest_factor(signal),
                     !.kurtosis = compute_kurtosis(signal),
                     !.skewness = compute_skewness(signal)]

\* features after  features.fft_magnitude = magnitudes; features.fft_frequencies = frequencies;
WithSpectrum(features, spectrum) ==
    [features EXCEPT !.fft_magnitude = spectrum[1], !.fft_frequencies = spectrum[2]]

\* features after the assignments that follow, from the same magnitudes and frequencies.
SpectralStats(features, spectrum) ==
    TheOnly({[features EXCEPT
                 !.spectral_centroid = centroid,
                 !.spectral_spread = compute_spectral_spread(spectrum[1], spectrum[2], centroid),
                 !.bandpowers = compute_bandpower(spectrum[1], spectrum[2]),
                 !.band_names = get_band_names] :
             centroid \in {compute_spectral_centroid(spectrum[1], spectrum[2])}})

\* The record extract_all returns for a window, on an extractor holding sample_rate.
extract_all(signal, sample_rate) ==
    TheOnly({SpectralStats(WithSpectrum(TimeDomain(SignalFeatures, signal), spectrum),
                           spectrum) :
             spectrum \in {compute_fft(signal, sample_rate)}})

\* ------------------------------------------------------------------ configuration

\* The constructor: the member is initialised from the argument, then the
\* argument is checked; a throw (std::invalid_argument) leaves no object behind.
FeatureExtractor(sample_rate) ==
    IF DLe[sample_rate, 0]
    THEN [err |-> "invalid_argument", alive |-> FALSE, sample_rate_ |-> 0]
    ELSE [err |-> "none", alive |-> TRUE, sample_rate_ |-> sample_rate]

\* set_sample_rate storing the argument before it checks it.
set_sample_rate_storeFirst(sample_rate_, rate) ==
    [err |-> IF DLe[rate, 0] THEN "invalid_argument" ELSE "none", sample_rate_ |-> rate]

\* set_sample_rate checking the argument and never storing it.
set_sample_rate_noStore(sample_rate_, rate) ==
    [err |-> IF DLe[rate, 0] THEN "invalid_argument" ELSE "none",
     sample_rate_ |-> sample_rate_]

\* set_sample_rate(rate) on an extractor that holds sample_rate_.
set_sample_rate(sample_rate_, rate) ==
    IF DLe[rate, 0]
    THEN [err |-> "invalid_argument", sample_rate_ |-> sample_rate_]
    ELSE [err |-> "none", sample_rate_ |-> rate]

get_sample_rate(sample_rate_) == sample_rate_

\* The const computation methods.
ComputeMethods ==
    {"compute_rms", "compute_peak", "compute_crest_factor", "compute_kurtosis",
     "compute_skewness", "compute_fft", "compute_spectral_centroid",
     "compute_spectral_spread", "compute_bandpower", "extract_all"}

\* What a computation method returns on an extractor holding sample_rate_.  The
\* three spectral methods are given the spectrum of the window (and its centroid).
Returned(method, sample_rate_, signal) ==
    CASE method = "compute_rms" -> compute_rms(signal)
      [] method = "compute_peak" -> compute_peak(signal)
      [] method = "compute_crest_factor" -> compute_crest_factor(signal)
      [] method = "compute_kurtosis" -> compute_kurtosis(signal)
      [] method = "compute_skewness" -> compute_skewness(signal)
      [] method = "compute_fft" -> compute_fft(signal, sample_rate_)
      [] method = "extract_all" -> extract_all(signal, sample_rate_)
      [] OTHER ->
           TheOnly({
               CASE method = "compute_spectral_centroid" ->
                        compute_spectral_centroid(sp[1], sp[2])
                 [] method = "compute_spectral_spread" ->
                        compute_spectral_spread(sp[1], sp[2],
                            compute_spectral_centroid(sp[1], sp[2]))
                 [] method = "compute_bandpower" -> compute_bandpower(sp[1], sp[2]) :
               sp \in {compute_fft(signal, sample_rate_)}})

\* A compute_fft that leaves its frequency resolution in the member.
Invoke_storesResolution(method, sample_rate_, signal) ==
    [sample_rate_ |-> IF method \in {"compute_fft", "extract_all"} /\ Len(signal) > 0
                      THEN DDiv[sample_rate_, D(next_power_of_2(Len(signal)))]
                      ELSE sample_rate_,
     signal |-> signal,
     ret |-> Returned(method, sample_rate_, signal)]

\* One call of a computation method, with the caller's window passed by const
\* reference: what it returns, and the member and the window as the call leaves
\* them (the methods are const and take const references).
Invoke(method, sample_rate_, signal) ==
    [sample_rate_ |-> sample_rate_,
     signal |-> signal,
     ret |-> Returned(method, sample_rate_, signal)]

\* Arguments the callers pass as a sampling rate.
RateArgs == {0 - D(8), 0, D(8), D(4000), DNaN}

\* Windows the callers of the extractor objects pass.
CallWindows == {<<>>, <<D(1)>>, <<D(1), 0 - D(1), 0>>}

\* Invoke, evaluated once for every method, rate and window the callers use.
InvokeTable ==
    [method \in ComputeMethods, rate \in RateArgs, w \in CallWindows |->
        Invoke(method, rate, w)]

Invoked(method, sample_rate_, signal) ==
    IF sample_rate_ \in RateArgs /\ signal \in CallWindows
    THEN InvokeTable[method, sample_rate_, signal]
    ELSE Invoke(method, sample_rate_, signal)

\* ------------------------------------------------------------------ the objects and their callers

NotConstructed == [alive |-> FALSE, sample_rate_ |-> 0]

NeverSet == [op |-> "none", arg |-> 0]

NoCall == [op |-> "none", ext |-> 0, arg |-> 0, signal |-> <<>>, signal_after |-> <<>>,
           before |-> NotConstructed, err |-> "none", ret |-> 0]

IdleCall == [pc |-> "idle", ext |-> 0, signal |-> <<>>, features |-> SignalFeatures,
             rate_read |-> 0, set_during |-> FALSE, rates |-> {}]

NoInput == [window |-> <<>>, sample_rate |-> 0]

NoOutput == [op |-> "none", ran |-> FALSE, buffer |-> <<>>, transformed |-> <<>>,
             ret |-> 0]

Init ==
    /\ ext = [e \in Ext |-> NotConstructed]
    /\ lastOk = [e \in Ext |-> NeverSet]
    /\ last = NoCall
    /\ calls = [c \in Calls |-> IdleCall]
    /\ xbuf = [c \in Calls |-> <<>>]
    /\ fin = NoInput
    /\ fout = NoOutput

\* FeatureExtractor fe(r), into the free slot e.
Construct(e, r) ==
    /\ ~ext[e].alive
    /\ LET o == FeatureExtractor(r)
       IN  /\ ext' = [ext EXCEPT ![e] = [alive |-> o.alive, sample_rate_ |-> o.sample_rate_]]
           /\ lastOk' = [lastOk EXCEPT ![e] = IF o.err = "none"
                                              THEN [op |-> "FeatureExtractor", arg |-> r]
                                              ELSE @]
           /\ last' = [NoCall EXCEPT !.op = "FeatureExtractor", !.ext = e, !.arg = r,
                                     !.before = ext[e], !.err = o.err]
    /\ UNCHANGED <<calls, xbuf, fin, fout>>

\* fe.set_sample_rate(r); set_during marks the extract_all calls on e that it
\* finds in progress. When it stores (line 18), rates of such a call that has its
\* read of sample_rate_ ahead takes the value stored: no lock and no atomic
\* orders the store with that read.
SetSampleRate(e, r) ==
    /\ ext[e].alive
    /\ LET o == set_sample_rate(ext[e].sample_rate_, r)
       IN  /\ ext' = [ext EXCEPT ![e].sample_rate_ = o.sample_rate_]
           /\ lastOk' = [lastOk EXCEPT ![e] = IF o.err = "none"
                                              THEN [op |-> "set_sample_rate", arg |-> r]
                                              ELSE @]
           /\ last' = [NoCall EXCEPT !.op = "set_sample_rate", !.ext = e, !.arg = r,
                                     !.before = ext[e], !.err = o.err]
    /\ calls' = [c \in Calls |->
                    IF calls[c].pc \notin {"idle", "done"} /\ calls[c].ext = e
                    THEN [calls[c] EXCEPT
                             !.set_during = TRUE,
                             !.rates =
                                 IF /\ set_sample_rate(ext[e].sample_rate_, r).err = "none"
                                    /\ calls[c].pc \in {"time", "pad", "fft", "spectrum"}
                                 THEN @ \cup {set_sample_rate(ext[e].sample_rate_, r).sample_rate_}
                                 ELSE @]
                    ELSE calls[c]]
    /\ UNCHANGED <<xbuf, fin, fout>>

\* fe.get_sample_rate()
GetSampleRate(e) ==
    /\ ext[e].alive
    /\ last' = [NoCall EXCEPT !.op = "get_sample_rate", !.ext = e, !.before = ext[e],
                              !.ret = get_sample_rate(ext[e].sample_rate_)]
    /\ UNCHANGED <<ext, lastOk, calls, xbuf, fin, fout>>

\* fe.compute_...(w) or fe.extract_all(w), run to completion.
Compute(e, method, w) ==
    /\ ext[e].alive
    /\ LET o == Invoked(method, ext[e].sample_rate_, w)
       IN  /\ ext' = [ext EXCEPT ![e].sample_rate_ = o.sample_rate_]
           /\ last' = [NoCall EXCEPT !.op = method, !.ext = e, !.signal = w,
                                     !.signal_after = o.signal, !.before = ext[e],
                                     !.ret = o.ret]
    /\ UNCHANGED <<lastOk, calls, xbuf, fin, fout>>

Next ==
    \/ \E e \in Ext, r \in RateArgs : Construct(e, r)
    \/ \E e \in Ext, r \in RateArgs : SetSampleRate(e, r)
    \/ \E e \in Ext : GetSampleRate(e)
    \/ \E e \in Ext, method \in ComputeMethods, w \in CallWindows : Compute(e, method, w)

Spec == Init /\ [][Next]_vars

\* ------------------------------------------------------------------ configuration properties

\* C1, as stated: in every reachable state, every extractor that exists holds a
\* sampling rate strictly greater than 0 (get_sample_rate() > 0).
C1_RateAlwaysPositive ==
    \A e \in Ext : ext[e].alive => DLt[0, get_sample_rate(ext[e].sample_rate_)]

\* C2: a construction with a rate <= 0 fails with invalid_argument and leaves no
\* extractor; a set_sample_rate with a rate <= 0 fails with the same error and
\* get_sample_rate returns after it what it returned before it.
C2_InvalidRateRejected ==
    /\ (last.op = "FeatureExtractor" /\ DLe[last.arg, 0])
           => (last.err = "invalid_argument" /\ ~ext[last.ext].alive)
    /\ (last.op = "set_sample_rate" /\ DLe[last.arg, 0])
           => /\ last.err = "invalid_argument"
              /\ ext[last.ext].alive
              /\ get_sample_rate(ext[last.ext].sample_rate_)
                     = get_sample_rate(last.before.sample_rate_)

\* A set_sample_rate(-8) has just failed on an extractor holding 4000 Hz.
C2_Witness ==
    /\ last.op = "set_sample_rate"
    /\ last.arg = 0 - D(8)
    /\ last.err = "invalid_argument"
    /\ last.before.sample_rate_ = D(4000)

\* C3: the rate in effect is the argument of the latest successful construction
\* or update: a successful set_sample_rate(r) is that latest update, get_sample_rate
\* returns its argument, and compute_fft and extract_all lay their frequency axis
\* out for it.
C3_RateInEffect ==
    /\ \A e \in Ext :
           ext[e].alive => get_sample_rate(ext[e].sample_rate_) = lastOk[e].arg
    /\ (last.op = "set_sample_rate" /\ last.err = "none")
           => lastOk[last.ext] = [op |-> "set_sample_rate", arg |-> last.arg]
    /\ last.op = "get_sample_rate" => last.ret = lastOk[last.ext].arg
    /\ last.op = "compute_fft"
           => last.ret[2] = compute_fft(last.signal, lastOk[last.ext].arg)[2]
    /\ last.op = "extract_all"
           => last.ret.fft_frequencies
                  = compute_fft(last.signal, lastOk[last.ext].arg)[2]

\* An extract_all on an extractor whose rate was last set, by set_sample_rate, to
\* 4000 Hz has returned the axis 0 Hz, 1000 Hz for a window of three samples.
C3_Witness ==
    /\ last.op = "extract_all"
    /\ Len(last.signal) = 3
    /\ lastOk[last.ext] = [op |-> "set_sample_rate", arg |-> D(4000)]
    /\ last.ret.fft_frequencies = <<0, D(1000)>>

FnRates == {r \in {0 - D(8), 0, D(8), D(4000), DNaN, DInf} : FeatureExtractor(r).alive}

\* What compute_fft does with a window: whether it runs the transform, the buffer
\* it hands to fft_recursive, the buffer as fft_recursive leaves it, and the pair
\* it returns.
FftTrace(signal, sample_rate) ==
    [ran |-> Len(signal) # 0,
     buffer |-> IF Len(signal) = 0 THEN <<>> ELSE PaddedBuffer(signal),
     transformed |-> IF Len(signal) = 0 THEN <<>>
                     ELSE fft_recursive(PaddedBuffer(signal)),
     ret |-> compute_fft(signal, sample_rate)]

InitFn ==
    /\ ext = [e \in Ext |-> NotConstructed]
    /\ lastOk = [e \in Ext |-> NeverSet]
    /\ last = NoCall
    /\ calls = [c \in Calls |-> IdleCall]
    /\ xbuf = [c \in Calls |-> <<>>]
    /\ fin \in [window : Windows, sample_rate : FnRates]
    /\ fout = NoOutput

\* extract_all(window) on an extractor constructed with sample_rate
ApplyExtractAll ==
    /\ fout' = [NoOutput EXCEPT !.op = "extract_all",
                                !.ret = extract_all(fin.window, fin.sample_rate)]
    /\ UNCHANGED <<ext, lastOk, last, calls, xbuf, fin>>

\* compute_fft(window) on an extractor constructed with sample_rate
ApplyComputeFft ==
    /\ LET t == FftTrace(fin.window, fin.sample_rate)
       IN  fout' = [op |-> "compute_fft", ran |-> t.ran, buffer |-> t.buffer,
                    transformed |-> t.transformed, ret |-> t.ret]
    /\ UNCHANGED <<ext, lastOk, last, calls, xbuf, fin>>

NextFn == ApplyExtractAll \/ ApplyComputeFft

SpecFn == InitFn /\ [][NextFn]_vars

\* ------------------------------------------------------------------ properties of the methods

\* C4: for the empty window extract_all returns rms, peak, crest factor, kurtosis,
\* skewness, spectral centroid and spectral spread all 0, five band powers all 0,
\* and empty magnitude and frequency sequences.
C4_EmptyWindowAllZero ==
    (fout.op = "extract_all" /\ fin.window = <<>>)
        => /\ fout.ret.rms = 0
           /\ fout.ret.peak = 0
           /\ fout.ret.crest_factor = 0
           /\ fout.ret.kurtosis = 0
           /\ fout.ret.skewness = 0
           /\ fout.ret.spectral_centroid = 0
           /\ fout.ret.spectral_spread = 0
           /\ fout.ret.bandpowers = <<0, 0, 0, 0, 0>>
           /\ fout.ret.fft_magnitude = <<>>
           /\ fout.ret.fft_frequencies = <<>>

\* extract_all has returned for the empty window at 4000 Hz.
C4_Witness ==
    /\ fout.op = "extract_all"
    /\ fin.window = <<>>
    /\ fin.sample_rate = D(4000)
    /\ fout.ret.rms = 0
    /\ Len(fout.ret.bandpowers) = 5

\* C5: for every window extract_all returns a complete record: each of the seven
\* scalars assigned, magnitude and frequency sequences of one length, and five
\* band powers beside five band names.
C5_CompleteRecord ==
    fout.op = "extract_all"
        => /\ \A f \in {"rms", "peak", "crest_factor", "kurtosis", "skewness",
                          "spectral_centroid", "spectral_spread"} :
                  fout.ret[f] # Indeterminate
           /\ Len(fout.ret.fft_magnitude) = Len(fout.ret.fft_frequencies)
           /\ Len(fout.ret.bandpowers) = 5
           /\ Len(fout.ret.band_names) = 5
           /\ \A b \in 1..5 : fout.ret.bandpowers[b] # Indeterminate

\* extract_all has returned for a window of three samples at 4000 Hz, with the
\* power of the 1000 Hz bin in the fourth band.
C5_Witness ==
    /\ fout.op = "extract_all"
    /\ Len(fin.window) = 3
    /\ fin.sample_rate = D(4000)
    /\ Len(fout.ret.fft_magnitude) = 2
    /\ DLt[0, fout.ret.bandpowers[4]]
    /\ fout.ret.band_names[4] = "1000-2000 Hz"

\* C9: for a window of length L >= 1 compute_fft transforms a buffer whose length
\* N is the smallest power of two >= L, holding the samples in order and then
\* zeros; for L = 0 it runs no transform and returns two empty sequences.
C9_PaddedToPowerOfTwo ==
    fout.op = "compute_fft"
        => LET L == Len(fin.window)
               N == Len(fout.buffer)
               PowerOfTwo(m) == \E k \in 0..m : 2^k = m
           IN  IF L = 0
               THEN ~fout.ran /\ fout.ret = << <<>>, <<>> >>
               ELSE /\ fout.ran
                    /\ PowerOfTwo(N)
                    /\ N >= L
                    /\ \A m \in L..(N - 1) : ~PowerOfTwo(m)
                    /\ \A i \in 1..N :
                           fout.buffer[i] = IF i <= L THEN <<fin.window[i], 0>>
                                            ELSE <<0, 0>>

\* compute_fft has transformed a window of three samples in a buffer of four.
C9_Witness ==
    /\ fout.op = "compute_fft"
    /\ fout.ran
    /\ Len(fin.window) = 3
    /\ fin.window[3] # 0
    /\ Len(fout.buffer) = 4
    /\ fout.buffer[4] = <<0, 0>>

\* C10: compute_fft returns magnitudes and frequencies of one length, half the
\* padded length (integer division); the spectrum is empty exactly for windows of
\* length 0 or 1.
C10_HalfSpectrum ==
    fout.op = "compute_fft"
        => LET L == Len(fin.window)
               bins == Len(fout.ret[1])
           IN  /\ bins = Len(fout.ret[2])
               /\ bins = IF L = 0 THEN 0 ELSE Len(fout.buffer) \div 2
               /\ (bins = 0) <=> (L \in {0, 1})
               /\ L >= 2 => bins >= 1

\* compute_fft has returned one bin for a window of two samples.
C10_Witness ==
    /\ fout.op = "compute_fft"
    /\ Len(fin.window) = 2
    /\ Len(fout.buffer) = 2
    /\ Len(fout.ret[1]) = 1
    /\ Len(fout.ret[2]) = 1

\* a == b on doubles: false when either is NaN.
DEq(a, b) == ~IsNaN(a) /\ ~IsNaN(b) /\ a = b

\* The frequencies freq of a spectrum at rate r and padded length N: bin k at
\* k * (r / N), the first at 0, each above the one before by the step r / N, all
\* strictly below r / 2.
FrequencyAxisLaw(freq, r, N) ==
    /\ Len(freq) = N \div 2
    /\ \A k \in 0..(Len(freq) - 1) :
           /\ DEq(freq[k + 1], DMul[D(k), DDiv[r, D(N)]])
           /\ DLt[freq[k + 1], DDiv[r, D(2)]]
    /\ Len(freq) >= 1 => DEq(freq[1], 0)
    /\ \A k \in 1..(Len(freq) - 1) :
           /\ DLt[freq[k], freq[k + 1]]
           /\ DEq(DSub[freq[k + 1], freq[k]], DDiv[r, D(N)])

\* C11, as stated: every spectrum compute_fft returns, at whatever sampling rate
\* the extractor holds, has bin k at k * (r / N): first frequency 0, strictly
\* increasing by the constant step r / N, every frequency strictly below r / 2.
C11_FrequencyAxis ==
    (fout.op = "compute_fft" /\ fout.ran)
        => FrequencyAxisLaw(fout.ret[2], fin.sample_rate, Len(fout.buffer))

\* The same law for the extractors whose rate is finite: it holds there.
FrequencyAxisAtFiniteRate ==
    (fout.op = "compute_fft" /\ fout.ran /\ IsFin(fin.sample_rate))
        => FrequencyAxisLaw(fout.ret[2], fin.sample_rate, Len(fout.buffer))

\* C12: compute_fft reports |X[k]| * 2 / N for every bin k >= 1 and |X[0]| / N for
\* the DC bin, X being the transformed padded window; a constant window of value
\* v over a power-of-two length >= 2 has DC magnitude |v| and 0 elsewhere; a tone
\* of amplitude A exactly on bin 1 of four has magnitude A there.
C12_MagnitudeScaling ==
    (fout.op = "compute_fft" /\ fout.ran)
        => LET X == fout.transformed
               N == Len(X)
               L == Len(fin.window)
               mag == fout.ret[1]
               p == fout.buffer
           IN  /\ \A k \in 1..(Len(mag) - 1) :
                      mag[k + 1] = DDiv[DMul[CAbs[X[k + 1]], D(2)], D(N)]
               /\ Len(mag) >= 1 => mag[1] = DDiv[CAbs[X[1]], D(N)]
               /\ (L = N /\ L >= 2 /\ \A i \in 1..L : fin.window[i] = fin.window[1])
                      => /\ mag[1] = DAbs[fin.window[1]]
                         /\ \A k \in 1..(Len(mag) - 1) : mag[k + 1] = 0
               /\ (/\ N = 4
                   /\ p[3] = <<DNeg[p[1][1]], 0>> /\ p[4] = <<DNeg[p[2][1]], 0>>
                   /\ (p[1][1] = 0) # (p[2][1] = 0))
                      => mag[2] = DMax[DAbs[p[1][1]], DAbs[p[2][1]]]

\* compute_fft has returned magnitude 1 in bin 1 for the tone 0, 1, 0, -1, whose
\* transform is 0, -2i, 0, 2i.
C12_Witness ==
    /\ fout.op = "compute_fft"
    /\ fin.window = <<0, D(1), 0, 0 - D(1)>>
    /\ fout.transformed[2] = <<0, 0 - D(2)>>
    /\ fout.ret[1] = <<0, D(1)>>

\* ------------------------------------------------------------------ fft_recursive on its own

\* Entries of the buffers handed to fft_recursive.
ComplexSamples ==
    {<<0, 0>>, <<D(1), 0>>, <<0 - D(1), 0>>, <<0, D(1)>>, <<D(1), 0 - D(1)>>}

\* The buffers: every sequence of entries of length 1, 2 or 4.
Buffers == UNION {[1..n -> ComplexSamples] : n \in {1, 2, 4}}

\* One buffer, owned by the first caller.
InitFft ==
    /\ ext = [e \in Ext |-> NotConstructed]
    /\ lastOk = [e \in Ext |-> NeverSet]
    /\ last = NoCall
    /\ calls = [c \in Calls |-> IdleCall]
    /\ xbuf \in {[c \in Calls |-> IF c = 1 THEN x ELSE <<>>] : x \in Buffers}
    /\ fin = NoInput
    /\ fout = NoOutput

\* fft_recursive(x) on the buffer of caller c, in place; fout keeps the buffer as
\* it was passed.
FftRecursive(c) ==
    /\ fout.op = "none"
    /\ Len(xbuf[c]) > 0
    /\ xbuf' = [xbuf EXCEPT ![c] = fft_recursive(@)]
    /\ fout' = [NoOutput EXCEPT !.op = "fft_recursive", !.ran = TRUE, !.buffer = xbuf[c]]
    /\ UNCHANGED <<ext, lastOk, last, calls, fin>>

NextFft == \E c \in Calls : FftRecursive(c)

SpecFft == InitFft /\ [][NextFft]_vars

\* z * (-i)^q, exactly: a quarter turn clockwise, q times.
QuarterTurns(z, q) ==
    CASE q % 4 = 0 -> z
      [] q % 4 = 1 -> <<z[2], 0 - z[1]>>
      [] q % 4 = 2 -> <<0 - z[1], 0 - z[2]>>
      [] q % 4 = 3 -> <<0 - z[2], z[1]>>

\* Bin k of the forward DFT of x, for Len(x) in {1, 2, 4}: the sum over n of
\* x[n] * e^(-2*pi*i*k*n/N), where e^(-2*pi*i/N) is (-i)^(4/N).
DftBin(x, k) ==
    Loop(LAMBDA sum, n :
             TheOnly({<<sum[1] + t[1], sum[2] + t[2]>> :
                      t \in {QuarterTurns(x[n + 1], k * n * (4 \div Len(x)))}}),
         <<0, 0>>, 0, Len(x) - 1)

\* C13: for a buffer x of length N in {1, 2, 4}, fft_recursive leaves in place
\* X[k] = sum over n of x[n] * e^(-2*pi*i*k*n/N) for every k in 0..N-1.
C13_ForwardDft ==
    fout.op = "fft_recursive"
        => \A c \in Calls :
               Len(xbuf[c]) > 0
                   => /\ Len(xbuf[c]) = Len(fout.buffer)
                      /\ \A k \in 0..(Len(fout.buffer) - 1) :
                             xbuf[c][k + 1] = DftBin(fout.buffer, k)

\* fft_recursive has transformed 1, i, 0, 0 into 1 + i, 2, 1 - i, 0: bins 1 and 3
\* tell the forward transform from the inverse one.
C13_Witness ==
    /\ fout.op = "fft_recursive"
    /\ fout.buffer = << <<D(1), 0>>, <<0, D(1)>>, <<0, 0>>, <<0, 0>> >>
    /\ \E c \in Calls :
           xbuf[c] = << <<D(1), D(1)>>, <<D(2), 0>>, <<D(1), 0 - D(1)>>, <<0, 0>> >>

\* ------------------------------------------------------------------ fft_recursive step by step

\* The buffer 1, 2, ..., n: every entry tells its place.
TaggedBuffer(n) == [k \in 1..n |-> <<D(k), 0>>]

\* The buffers of the stepwise runs: those above and the tagged ones of 2 to 16.
StepBuffers == Buffers \cup {TaggedBuffer(n) : n \in {2, 4, 8, 16}}

\* The activation of fft_recursive, in fout: pc is the place in the function, n,
\* bits, i, j, len, wlen and w are its locals, buffer is x as it was passed.
\* The rest is a record of what was done: the swaps <<i, j>>, the block sizes of
\* the stages begun, the buffer as the current stage found it, and the
\* butterflies of the current stage, each with its block i, its j, the two
\* indices it read and wrote and the w it used.
FftStart(x) ==
    [op |-> "fft_recursive", pc |-> "call", buffer |-> x,
     n |-> Len(x), bits |-> 0, i |-> 0, j |-> 0, len |-> 0,
     wlen |-> <<0, 0>>, w |-> <<0, 0>>,
     permuted |-> <<>>, swaps |-> <<>>, stages |-> <<>>, before |-> <<>>,
     butterflies |-> <<>>]

InitFftSteps ==
    /\ ext = [e \in Ext |-> NotConstructed]
    /\ lastOk = [e \in Ext |-> NeverSet]
    /\ last = NoCall
    /\ calls = [c \in Calls |-> IdleCall]
    /\ \E x \in StepBuffers :
           /\ xbuf = [c \in Calls |-> IF c = 1 THEN x ELSE <<>>]
           /\ fout = FftStart(x)
    /\ fin = NoInput

\* if (n <= 1) return;  then bits is counted and the permutation loop begins.
FftEnter ==
    /\ fout.op = "fft_recursive" /\ fout.pc = "call"
    /\ fout' = IF fout.n <= 1 THEN [fout EXCEPT !.pc = "done"]
               ELSE [fout EXCEPT !.pc = "permute", !.bits = BitsOf(fout.n), !.i = 0]
    /\ UNCHANGED <<ext, lastOk, last, calls, xbuf, fin>>

\* The permutation loop without its i < j test: every mirrored pair is swapped
\* from both ends.
PermuteStep_unguarded ==
    /\ fout.op = "fft_recursive" /\ fout.pc = "permute"
    /\ IF fout.i < fout.n
       THEN LET j == bit_reverse(fout.i, fout.bits)
            IN  /\ xbuf' = [xbuf EXCEPT ![1] = IF fout.i # j THEN Swap(@, fout.i, j) ELSE @]
                /\ fout' = [fout EXCEPT !.i = @ + 1, !.j = j,
                                        !.swaps = IF fout.i # j
                                                  THEN Append(@, <<fout.i, j>>) ELSE @]
       ELSE /\ xbuf' = xbuf
            /\ fout' = [fout EXCEPT !.pc = "stage", !.len = 2, !.permuted = xbuf[1]]
    /\ UNCHANGED <<ext, lastOk, last, calls, fin>>

\* One pass of  for (i = 0; i < n; ++i) { j = bit_reverse(i, bits); if (i < j) swap }
\* or its end, where the stage loop begins with len = 2.
PermuteStep ==
    /\ fout.op = "fft_recursive" /\ fout.pc = "permute"
    /\ IF fout.i < fout.n
       THEN LET j == bit_reverse(fout.i, fout.bits)
            IN  /\ xbuf' = [xbuf EXCEPT ![1] = IF fout.i < j THEN Swap(@, fout.i, j) ELSE @]
                /\ fout' = [fout EXCEPT !.i = @ + 1, !.j = j,
                                        !.swaps = IF fout.i < j
                                                  THEN Append(@, <<fout.i, j>>) ELSE @]
       ELSE /\ xbuf' = xbuf
            /\ fout' = [fout EXCEPT !.pc = "stage", !.len = 2, !.permuted = xbuf[1]]
    /\ UNCHANGED <<ext, lastOk, last, calls, fin>>

\* The test of  for (len = 2; len <= n; len <<= 1)  and the stage's wlen.
StageStep ==
    /\ fout.op = "fft_recursive" /\ fout.pc = "stage"
    /\ fout' = IF fout.len <= fout.n
               THEN [fout EXCEPT !.pc = "block", !.wlen = Twiddle(fout.len), !.i = 0,
                                 !.stages = Append(@, fout.len), !.before = xbuf[1],
                                 !.butterflies = <<>>]
               ELSE [fout EXCEPT !.pc = "done"]
    /\ UNCHANGED <<ext, lastOk, last, calls, xbuf, fin>>

\* The block loop with w declared outside it: a block begins with the w the
\* block before it ended with.
BlockStep_carriesTwiddle ==
    /\ fout.op = "fft_recursive" /\ fout.pc = "block"
    /\ fout' = IF fout.i < fout.n
               THEN [fout EXCEPT !.pc = "butterfly",
                                 !.w = IF fout.i = 0 THEN <<D(1), 0>> ELSE @, !.j = 0]
               ELSE [fout EXCEPT !.pc = "stage", !.len = 2 * @]
    /\ UNCHANGED <<ext, lastOk, last, calls, xbuf, fin>>

\* The test of  for (i = 0; i < n; i += len)  and the block's w(1.0, 0.0).
BlockStep ==
    /\ fout.op = "fft_recursive" /\ fout.pc = "block"
    /\ fout' = IF fout.i < fout.n
               THEN [fout EXCEPT !.pc = "butterfly", !.w = <<D(1), 0>>, !.j = 0]
               ELSE [fout EXCEPT !.pc = "stage", !.len = 2 * @]
    /\ UNCHANGED <<ext, lastOk, last, calls, xbuf, fin>>

\* One pass of  for (j = 0; j < len / 2; ++j)  or its end, where i += len.
ButterflyStep ==
    /\ fout.op = "fft_recursive" /\ fout.pc = "butterfly"
    /\ IF fout.j < fout.len \div 2
       THEN /\ xbuf' = [xbuf EXCEPT ![1] = Butterfly(@, fout.len, fout.i, fout.j, fout.w)]
            /\ fout' = [fout EXCEPT
                           !.w = CMul[@, fout.wlen],
                           !.j = @ + 1,
                           !.butterflies =
                               Append(@, [i |-> fout.i, j |-> fout.j,
                                          low |-> fout.i + fout.j,
                                          high |-> fout.i + fout.j + fout.len \div 2,
                                          w |-> fout.w])]
       ELSE /\ xbuf' = xbuf
            /\ fout' = [fout EXCEPT !.pc = "block", !.i = @ + fout.len]
    /\ UNCHANGED <<ext, lastOk, last, calls, fin>>

NextFftSteps ==
    \/ FftEnter
    \/ PermuteStep
    \/ StageStep
    \/ BlockStep
    \/ ButterflyStep

SpecFftSteps == InitFftSteps /\ [][NextFftSteps]_vars

\* fft_recursive runs on the calling thread with nothing to wait for: a step that
\* can be taken is taken.
SpecFftStepsFair == SpecFftSteps /\ WF_vars(NextFftSteps)

\* The steps leave what fft_recursive leaves.
StepsAgreeWithFftRecursive ==
    (fout.op = "fft_recursive" /\ fout.pc = "done")
        => xbuf[1] = fft_recursive(fout.buffer)

\* The permutation loop is over: the stages have begun or the function is done.
Permuted ==
    /\ fout.op = "fft_recursive"
    /\ fout.pc \in {"stage", "block", "butterfly", "done"}
    /\ fout.n >= 2

\* How often the pair of indices a and b was swapped, in either order.
SwapCount(swaps, a, b) ==
    Cardinality({k \in 1..Len(swaps) : swaps[k] \in {<<a, b>>, <<b, a>>}})

\* C26: for a buffer of N = 2^b entries, b >= 1, the first step of the transform
\* leaves x'[i] = x[rev_b(i)] for every i in 0..N-1; bit_reverse maps 0..N-1 onto
\* itself, one to one, and is its own inverse; each pair of distinct mirrored
\* indices is swapped exactly once and no index is swapped with itself.
C26_BitReversal ==
    Permuted =>
        LET N == fout.n
            rev(i) == bit_reverse(i, fout.bits)
        IN  /\ N = 2^fout.bits /\ fout.bits >= 1
            /\ \A i \in 0..(N - 1) : fout.permuted[i + 1] = fout.buffer[rev(i) + 1]
            /\ \A i \in 0..(N - 1) : rev(i) \in 0..(N - 1) /\ rev(rev(i)) = i
            /\ {rev(i) : i \in 0..(N - 1)} = 0..(N - 1)
            /\ \A i, k \in 0..(N - 1) : rev(i) = rev(k) => i = k
            /\ \A i \in 0..(N - 1) :
                   SwapCount(fout.swaps, i, rev(i)) = IF i = rev(i) THEN 0 ELSE 1
            /\ \A k \in 1..Len(fout.swaps) :
                   fout.swaps[k][2] = rev(fout.swaps[k][1])

\* The buffer 1..8 has been permuted to 1 5 3 7 2 6 4 8 by the swaps of 1 with 4
\* and of 3 with 6, and the function has returned.
C26_Witness ==
    /\ Permuted /\ fout.pc = "done"
    /\ fout.buffer = TaggedBuffer(8)
    /\ fout.permuted = [k \in 1..8 |-> <<D(<<1, 5, 3, 7, 2, 6, 4, 8>>[k]), 0>>]
    /\ fout.swaps = <<(<<1, 4>>), (<<3, 6>>)>>

\* The indices the butterflies of the current stage read and wrote, in order.
RECURSIVE Touched(_)
Touched(butterflies) ==
    IF butterflies = <<>> THEN <<>>
    ELSE <<Head(butterflies).low, Head(butterflies).high>> \o Touched(Tail(butterflies))

\* A stage has run all its blocks: the stage loop is at its test again, or over.
StageComplete ==
    /\ fout.stages # <<>>
    /\ fout.pc \in {"stage", "done"}

\* What holds at every step of fft_recursive on a buffer of two entries or more.
ButterflyStages ==
    (fout.op = "fft_recursive" /\ fout.n >= 2) =>
        LET N == fout.n
            touched == Touched(fout.butterflies)
            x == xbuf[1]
        IN  \* block sizes 2, 4, 8, ... in ascending order, none beyond N
            /\ \A k \in 1..Len(fout.stages) : fout.stages[k] = 2^k /\ 2^k <= N
            \* log2(N) of them by the end
            /\ fout.pc = "done" => (N = 2^Len(fout.stages))
            \* every index within the buffer, none touched twice in a stage
            /\ \A k \in 1..Len(touched) : touched[k] \in 0..(N - 1)
            /\ \A k, m \in 1..Len(touched) : touched[k] = touched[m] => k = m
            \* N/2 butterflies a stage, touching all of 0..N-1
            /\ StageComplete =>
                   /\ Len(fout.butterflies) = N \div 2
                   /\ {touched[k] : k \in 1..Len(touched)} = 0..(N - 1)
            \* what a butterfly read is what the stage found, and nothing else
            \* was written
            /\ fout.stages # <<>> =>
                   /\ \A k \in 1..Len(fout.butterflies) :
                          LET b == fout.butterflies[k]
                              u == fout.before[b.low + 1]
                              t == CMul[b.w, fout.before[b.high + 1]]
                          IN  /\ x[b.low + 1] = CAdd[u, t]
                              /\ x[b.high + 1] = CSub[u, t]
                   /\ \A i \in 0..(N - 1) :
                          (\A k \in 1..Len(touched) : touched[k] # i)
                              => x[i + 1] = fout.before[i + 1]
            \* w is 1 at the head of a block and wlen times the last w after it
            /\ \A k \in 1..Len(fout.butterflies) :
                   LET b == fout.butterflies[k]
                       len == fout.stages[Len(fout.stages)]
                   IN  /\ b.i % len = 0 /\ b.j \in 0..(len \div 2 - 1)
                       /\ b.low = b.i + b.j /\ b.high = b.low + len \div 2
                       /\ IF b.j = 0 THEN b.w = <<D(1), 0>>
                          ELSE /\ k > 1
                               /\ fout.butterflies[k - 1].i = b.i
                               /\ fout.butterflies[k - 1].j = b.j - 1
                               /\ b.w = CMul[fout.butterflies[k - 1].w, Twiddle(len)]

\* C27: on a buffer of N = 2^b >= 2 entries fft_recursive runs log2(N) stages
\* of block sizes 2, 4, ..., N in this order and then ends; a stage is N/2
\* butterflies that read and write each index of 0..N-1 once and none outside;
\* in a block w is 1 at the first butterfly and is multiplied by
\* e^(-2 pi i / len) after each.
C27_ButterflyStages ==
    /\ []ButterflyStages
    /\ <>(fout.op = "fft_recursive" /\ fout.pc = "done")

\* The buffer 1..8 went through the stages 2, 4 and 8; the last one was one
\* block of four butterflies, with w = 1, wlen, wlen^2, wlen^3.
C27_Witness ==
    /\ fout.op = "fft_recursive" /\ fout.pc = "done"
    /\ fout.buffer = TaggedBuffer(8)
    /\ fout.stages = <<2, 4, 8>>
    /\ Touched(fout.butterflies) = <<0, 4, 1, 5, 2, 6, 3, 7>>
    /\ fout.butterflies[1].w = <<D(1), 0>>
    /\ fout.butterflies[2].w = Twiddle(8)
    /\ fout.butterflies[4].w = CMul[CMul[Twiddle(8), Twiddle(8)], Twiddle(8)]

\* ------------------------------------------------------------------ the time-domain methods

\* Sample values of the windows the time-domain methods are applied to.
StatSamples == {0 - D(16), 0, D(8), D(16)}

\* Every such window of length 0..MaxLen.
StatWindows == SeqsUpTo(StatSamples, MaxLen)

InitTime ==
    /\ ext = [e \in Ext |-> NotConstructed]
    /\ lastOk = [e \in Ext |-> NeverSet]
    /\ last = NoCall
    /\ calls = [c \in Calls |-> IdleCall]
    /\ xbuf = [c \in Calls |-> <<>>]
    /\ fin \in [window : StatWindows, sample_rate : {D(8)}]
    /\ fout = NoOutput

ApplyRms ==
    /\ fout' = [NoOutput EXCEPT !.op = "compute_rms", !.ret = compute_rms(fin.window)]
    /\ UNCHANGED <<ext, lastOk, last, calls, xbuf, fin>>

ApplyPeak ==
    /\ fout' = [NoOutput EXCEPT !.op = "compute_peak", !.ret = compute_peak(fin.window)]
    /\ UNCHANGED <<ext, lastOk, last, calls, xbuf, fin>>

ApplyCrestFactor ==
    /\ fout' = [NoOutput EXCEPT !.op = "compute_crest_factor",
                                !.ret = compute_crest_factor(fin.window)]
    /\ UNCHANGED <<ext, lastOk, last, calls, xbuf, fin>>

ApplyKurtosis ==
    /\ fout' = [NoOutput EXCEPT !.op = "compute_kurtosis",
                                !.ret = compute_kurtosis(fin.window)]
    /\ UNCHANGED <<ext, lastOk, last, calls, xbuf, fin>>

ApplySkewness ==
    /\ fout' = [NoOutput EXCEPT !.op = "compute_skewness",
                                !.ret = compute_skewness(fin.window)]
    /\ UNCHANGED <<ext, lastOk, last, calls, xbuf, fin>>

NextTime ==
    \/ ApplyRms
    \/ ApplyPeak
    \/ ApplyCrestFactor
    \/ ApplyKurtosis
    \/ ApplySkewness

SpecTime == InitTime /\ [][NextTime]_vars

\* The sum of f(i) over i in 1..n, as an integer.
RECURSIVE IntSum(_, _)
IntSum(f(_), n) == IF n = 0 THEN 0 ELSE f(n) + IntSum(f, n - 1)

\* All samples of the window are one value.
IsConstant(w) == \A i \in 1..Len(w) : w[i] = w[1]

\* C14: compute_rms returns 0 for the empty window; otherwise the square root of
\* the mean of the squared samples, to within two steps of the resolution
\* (n * rms^2 <= sum of s^2 < n * (rms + 2 steps)^2); for a non-empty constant
\* window of value v it returns |v|.
C14_Rms ==
    fout.op = "compute_rms"
        => LET w == fin.window
               n == Len(w)
               r == fout.ret
               sumsq == IntSum(LAMBDA i : (w[i] \div Scale) * (w[i] \div Scale), n)
           IN  /\ n = 0 => r = 0
               /\ n > 0 => /\ r >= 0
                           /\ n * r * r <= Scale * Scale * sumsq
                           /\ Scale * Scale * sumsq < n * (r + 2) * (r + 2)
               /\ (n > 0 /\ IsConstant(w)) => r = DAbs[w[1]]

\* compute_rms has returned 12 for the window 16, 8, 8, -16: the root of the mean
\* 160 of the squares, cut to the resolution.
C14_Witness ==
    /\ fout.op = "compute_rms"
    /\ fin.window = <<D(16), D(8), D(8), 0 - D(16)>>
    /\ DLt[D(12), fout.ret] /\ DLt[fout.ret, D(13)]

\* C15: compute_peak returns 0 for the empty window; otherwise a value that is
\* >= |s| for every sample s, equals |s| for some sample, and is not negative.
C15_Peak ==
    fout.op = "compute_peak"
        => LET w == fin.window
               r == fout.ret
           IN  /\ Len(w) = 0 => r = 0
               /\ Len(w) > 0 => /\ \A i \in 1..Len(w) : DGe[r, DAbs[w[i]]]
                                /\ \E i \in 1..Len(w) : r = DAbs[w[i]]
               /\ DGe[r, 0]

\* compute_peak has returned 16 for a window whose largest sample is 8 and whose
\* most negative one is -16.
C15_Witness ==
    /\ fout.op = "compute_peak"
    /\ fin.window = <<D(8), 0 - D(16), 0>>
    /\ fout.ret = D(16)

Deviation(w, i) ==
    Len(w) * (w[i] \div D(8)) - IntSum(LAMBDA j : w[j] \div D(8), Len(w))

\* n^(k+1) times the k-th population central moment, in units of 8^k: the sum of
\* the k-th powers of the deviations.
DeviationPowerSum(w, k) ==
    IntSum(LAMBDA i : TheOnly({IF k = 2 THEN d * d
                               ELSE IF k = 3 THEN d * d * d
                               ELSE d * d * d * d : d \in {Deviation(w, i)}}),
           Len(w))

\* The excess kurtosis n * M4 / M2^2 - 3 of a window that is not constant, cut to
\* the resolution.
ExactKurtosis(w) ==
    TheOnly({(Scale * Len(w) * DeviationPowerSum(w, 4)) \div (M2 * M2) - D(3) :
             M2 \in {DeviationPowerSum(w, 2)}})

\* The skewness sqrt(n) * M3 / M2^(3/2) of a window that is not constant, cut to
\* the resolution: the root of Scale^2 * n * M3^2 / M2^3, the quotient taken in
\* two steps to stay within the integers' width.
ExactSkewness(w) ==
    TheOnly({Sgn(M3) * Isqrt((Y \div C) * Scale + ((Y % C) * Scale) \div C) :
             M3 \in {DeviationPowerSum(w, 3)},
             C \in {TheOnly({M2 * M2 * M2 : M2 \in {DeviationPowerSum(w, 2)}})},
             Y \in {TheOnly({Scale * Len(w) * M3 * M3 : M3 \in {DeviationPowerSum(w, 3)}})}})

\* The window's samples are symmetric about their mean: each deviation occurs as
\* often as its negative.
IsSymmetric(w) ==
    \A i \in 1..Len(w) :
        Cardinality({j \in 1..Len(w) : Deviation(w, j) = Deviation(w, i)})
            = Cardinality({j \in 1..Len(w) : Deviation(w, j) = 0 - Deviation(w, i)})

\* C17: compute_kurtosis returns 0 for a window of fewer than 4 samples and for a
\* window of variance 0 (every constant window); otherwise it returns, to within
\* two steps of the resolution, (fourth central moment / squared variance) - 3
\* with the population moments (divisor n).
C17_Kurtosis ==
    fout.op = "compute_kurtosis"
        => LET w == fin.window
               r == fout.ret
           IN  /\ Len(w) < 4 => r = 0
               /\ (IsConstant(w) \/ DeviationPowerSum(w, 2) = 0) => r = 0
               /\ (Len(w) >= 4 /\ DeviationPowerSum(w, 2) # 0)
                      => Mag(r - ExactKurtosis(w)) <= 2

\* compute_kurtosis has returned about -2/3 (between -3/4 and -5/8) for the window
\* 16, 16, 16, -16, whose fourth moment is 7/3 of its squared variance.
C17_Witness ==
    /\ fout.op = "compute_kurtosis"
    /\ fin.window = <<D(16), D(16), D(16), 0 - D(16)>>
    /\ DLe[0 - (D(3) \div 4), fout.ret]
    /\ DLe[fout.ret, 0 - (D(5) \div 8)]

\* C18: compute_skewness returns 0 for a window of fewer than 3 samples and for a
\* window of standard deviation 0; otherwise it returns, to within two steps of
\* the resolution, (third central moment) / (population standard deviation)^3,
\* which is 0 for a window whose samples are symmetric about their mean.
C18_Skewness ==
    fout.op = "compute_skewness"
        => LET w == fin.window
               r == fout.ret
           IN  /\ Len(w) < 3 => r = 0
               /\ (IsConstant(w) \/ DeviationPowerSum(w, 2) = 0) => r = 0
               /\ (Len(w) >= 3 /\ DeviationPowerSum(w, 2) # 0)
                      => Mag(r - ExactSkewness(w)) <= 2
               /\ IsSymmetric(w) => r = 0

\* compute_skewness has returned about 1/sqrt(2) (between 5/8 and 3/4) for the
\* window 16, 0, 0.
C18_Witness ==
    /\ fout.op = "compute_skewness"
    /\ fin.window = <<D(16), 0, 0>>
    /\ DLe[D(5) \div 8, fout.ret]
    /\ DLe[fout.ret, D(3) \div 4]

\* ------------------------------------------------------------------ the spectral statistics

\* Most bins of a spectrum handed to the spectral statistics.
MaxBins == 3

\* Magnitudes and frequencies (Hz) the spectra are built from, and the centroids
\* passed to compute_spectral_spread.
MagnitudeValues == {0 - D(1), 0, D(2)}
FrequencyValues == {0 - D(10), 0, D(100)}
CentroidValues == {0, D(40), D(100)}

\* The methods take any two vectors: they need not have one length.
InitSpectral ==
    /\ ext = [e \in Ext |-> NotConstructed]
    /\ lastOk = [e \in Ext |-> NeverSet]
    /\ last = NoCall
    /\ calls = [c \in Calls |-> IdleCall]
    /\ xbuf = [c \in Calls |-> <<>>]
    /\ fin \in [magnitudes : SeqsUpTo(MagnitudeValues, MaxBins),
                 frequencies : SeqsUpTo(FrequencyValues, MaxBins),
                 centroid : CentroidValues]
    /\ fout = NoOutput

ApplySpectralCentroid ==
    /\ fout' = [NoOutput EXCEPT
                   !.op = "compute_spectral_centroid",
                   !.ret = compute_spectral_centroid(fin.magnitudes, fin.frequencies)]
    /\ UNCHANGED <<ext, lastOk, last, calls, xbuf, fin>>

ApplySpectralSpread ==
    /\ fout' = [NoOutput EXCEPT
                   !.op = "compute_spectral_spread",
                   !.ret = compute_spectral_spread(fin.magnitudes, fin.frequencies,
                                                   fin.centroid)]
    /\ UNCHANGED <<ext, lastOk, last, calls, xbuf, fin>>

NextSpectral == ApplySpectralCentroid \/ ApplySpectralSpread

SpecSpectral == InitSpectral /\ [][NextSpectral]_vars

\* The bins of the spectrum: the positions both vectors have.
Bins(magnitudes, frequencies) == 1..Min2(Len(magnitudes), Len(frequencies))

\* The power of bin i in whole units (the magnitudes are whole numbers).
WholePower(magnitudes, i) == (magnitudes[i] \div Scale) * (magnitudes[i] \div Scale)

\* sum(mag^2) over the bins, in whole units.
WholeTotalPower(magnitudes, frequencies) ==
    IntSum(LAMBDA i : WholePower(magnitudes, i),
           Min2(Len(magnitudes), Len(frequencies)))

\* C19: compute_spectral_centroid returns 0 when either vector of the spectrum is
\* empty or the total power sum(mag^2) is below 1e-10; otherwise it returns
\* sum(freq * mag^2) / sum(mag^2), to within one step of the resolution, and when
\* no frequency is negative the result is not below the smallest and not above
\* the largest frequency of the spectrum.
C19_SpectralCentroid ==
    fout.op = "compute_spectral_centroid"
        => LET m == fin.magnitudes
               f == fin.frequencies
               r == fout.ret
               total == WholeTotalPower(m, f)
               weighted == IntSum(LAMBDA i : f[i] * WholePower(m, i),
                                  Min2(Len(m), Len(f)))
           IN  /\ (Len(m) = 0 \/ Len(f) = 0) => r = 0
               /\ total = 0 => r = 0
               /\ total > 0
                      => /\ Mag(r * total - weighted) <= total
                         /\ (\A i \in Bins(m, f) : f[i] >= 0)
                                => /\ \E i \in Bins(m, f) : f[i] <= r
                                   /\ \E i \in Bins(m, f) : r <= f[i]

\* compute_spectral_centroid has returned 80 Hz for power 1 at 0 Hz and power 4 at
\* 100 Hz.
C19_Witness ==
    /\ fout.op = "compute_spectral_centroid"
    /\ fin.magnitudes = <<0 - D(1), D(2)>>
    /\ fin.frequencies = <<0, D(100)>>
    /\ fout.ret = D(80)

\* C20: compute_spectral_spread returns 0 when either vector of the spectrum is
\* empty or the total power is below 1e-10; otherwise it returns, to within two
\* steps of the resolution, sqrt(sum((freq - centroid)^2 * mag^2) / sum(mag^2))
\* for the centroid passed in; the result is never negative, and it is 0 when all
\* the power is in one bin whose frequency is that centroid.
C20_SpectralSpread ==
    fout.op = "compute_spectral_spread"
        => LET m == fin.magnitudes
               f == fin.frequencies
               c == fin.centroid
               r == fout.ret
               total == WholeTotalPower(m, f)
               weighted == IntSum(LAMBDA i : ((f[i] - c) \div Scale) * ((f[i] - c) \div Scale)
                                                * WholePower(m, i),
                                  Min2(Len(m), Len(f)))
           IN  /\ (Len(m) = 0 \/ Len(f) = 0) => r = 0
               /\ total = 0 => r = 0
               /\ DGe[r, 0]
               /\ total > 0
                      => /\ r * r * total <= Scale * Scale * weighted
                         /\ Scale * Scale * weighted < (r + 2) * (r + 2) * total
               /\ (\E k \in Bins(m, f) :
                       /\ m[k] # 0
                       /\ f[k] = c
                       /\ \A i \in Bins(m, f) \ {k} : m[i] = 0)
                      => r = 0

\* compute_spectral_spread has returned 60 Hz around the centroid 40 Hz for a
\* spectrum with all its power at 100 Hz.
C20_Witness ==
    /\ fout.op = "compute_spectral_spread"
    /\ fin.magnitudes = <<0, D(2)>>
    /\ fin.frequencies = <<0, D(100), 0 - D(10)>>
    /\ fin.centroid = D(40)
    /\ fout.ret = D(60)

\* ------------------------------------------------------------------ the band powers

\* Frequencies (Hz) of the bins handed to compute_bandpower directly: the band
\* edges, the last value below the first and the last edge, and the first value
\* below 0.
BandFrequencies ==
    {0 - 1, 0, D(100) - 1, D(100), D(500), D(1000), D(2000), D(10000) - 1, D(10000)}

BandMagnitudes == {D(1), D(2)}

\* The spectra of up to n bins with these magnitudes and frequencies.
RECURSIVE BandSpectra(_)
BandSpectra(n) ==
    IF n = 0 THEN {[magnitudes |-> <<>>, frequencies |-> <<>>]}
    ELSE LET shorter == BandSpectra(n - 1)
         IN  shorter \cup
             {[magnitudes |-> Append(sp.magnitudes, m),
               frequencies |-> Append(sp.frequencies, f)] :
                  sp \in {t \in shorter : Len(t.magnitudes) = n - 1},
                  m \in BandMagnitudes, f \in BandFrequencies}

\* Sampling rates of the extractors whose spectra are handed to compute_bandpower.
BandRates == {r \in {D(5000), D(16000), D(40000)} : FeatureExtractor(r).alive}

\* generate_sine(freq, 5000.0, 8, 100.0) of the tests for freq = 50 and for
\* freq = 1500: the samples 100 * sin(2 * PI * freq * i / 5000), i = 0..7, to the
\* nearest whole number.
Tone50 == <<0, 6, 13, 19, 25, 31, 37, 43>>
Tone1500 == <<0, 95, -59, -59, 95, 0, -95, 59>>

\* The first n_samples samples of a tone, as doubles.
generate_sine(tone, n_samples) == [i \in 1..n_samples |-> D(tone[i])]

\* The tone windows: 3 to 8 samples of either tone.
ToneLengths == 3..8
ToneWindows == {generate_sine(tone, n) : tone \in {Tone50, Tone1500}, n \in ToneLengths}

\* The spectrum is either given directly (window empty, sample_rate 0) or the one
\* compute_fft returns for a window on an extractor holding sample_rate; the
\* tones are sampled at 5000 Hz.
InitBand ==
    /\ ext = [e \in Ext |-> NotConstructed]
    /\ lastOk = [e \in Ext |-> NeverSet]
    /\ last = NoCall
    /\ calls = [c \in Calls |-> IdleCall]
    /\ xbuf = [c \in Calls |-> <<>>]
    /\ fin \in {[magnitudes |-> sp.magnitudes, frequencies |-> sp.frequencies,
                  window |-> <<>>, sample_rate |-> 0] : sp \in BandSpectra(MaxBins)}
              \cup
              {TheOnly({[magnitudes |-> sp[1], frequencies |-> sp[2],
                         window |-> w, sample_rate |-> r] :
                        sp \in {compute_fft(w, r)}}) :
                   w \in Windows \ {<<>>}, r \in BandRates}
              \cup
              {TheOnly({[magnitudes |-> sp[1], frequencies |-> sp[2],
                         window |-> w, sample_rate |-> D(5000)] :
                        sp \in {compute_fft(w, D(5000))}}) :
                   w \in ToneWindows}
    /\ fout = NoOutput

ApplyBandpower ==
    /\ fout.op = "none"
    /\ fout' = [NoOutput EXCEPT
                   !.op = "compute_bandpower",
                   !.ret = compute_bandpower(fin.magnitudes, fin.frequencies)]
    /\ UNCHANGED <<ext, lastOk, last, calls, xbuf, fin>>

NextBand == ApplyBandpower

SpecBand == InitBand /\ [][NextBand]_vars

\* The band edges the claims name, in Hz: band b is [BandEdges[b], BandEdges[b+1]).
BandEdges == <<0, 100, 500, 1000, 2000, 10000>>

\* Band b's half-open interval holds the frequency f.
InBand(b, f) == D(BandEdges[b]) <= f /\ f < D(BandEdges[b + 1])

\* The bins whose power belongs to band b: those it holds that no earlier band holds.
BinsOfBand(magnitudes, frequencies, b) ==
    {i \in Bins(magnitudes, frequencies) :
        /\ InBand(b, frequencies[i])
        /\ \A a \in 1..(b - 1) : ~InBand(a, frequencies[i])}

\* The sum of the squared magnitudes of the bins in I.
PowerOfBins(magnitudes, I) ==
    IntSum(LAMBDA i : IF i \in I THEN BinPower(magnitudes, i) ELSE 0, Len(magnitudes))

\* What holds of every spectrum: five sums, each the power of the bins of its
\* band, a bin at an edge among the bins of the upper band.
BandpowerWithinBands ==
    fout.op = "compute_bandpower"
        => LET m == fin.magnitudes
               f == fin.frequencies
           IN  /\ Len(fout.ret) = 5
               /\ \A b \in 1..5 : fout.ret[b] = PowerOfBins(m, BinsOfBand(m, f, b))
               /\ \A i \in Bins(m, f) :
                      Cardinality({b \in 1..5 : i \in BinsOfBand(m, f, b)}) <= 1
               /\ \A i \in Bins(m, f), b \in 2..5 :
                      f[i] = D(BandEdges[b]) => i \in BinsOfBand(m, f, b)

\* C21: compute_bandpower returns five sums that start at 0; each bin's squared
\* magnitude is added to exactly one band, the first of [0,100), [100,500),
\* [500,1000), [1000,2000), [2000,10000) that holds the bin's frequency, and a bin
\* at an edge 100, 500, 1000 or 2000 Hz is counted in the upper band.
C21_Bandpower ==
    fout.op = "compute_bandpower"
        => LET m == fin.magnitudes
               f == fin.frequencies
           IN  /\ Len(fout.ret) = 5
               /\ \A b \in 1..5 : fout.ret[b] = PowerOfBins(m, BinsOfBand(m, f, b))
               /\ \A i \in Bins(m, f) :
                      Cardinality({b \in 1..5 : i \in BinsOfBand(m, f, b)}) = 1
               /\ \A i \in Bins(m, f), b \in 2..5 :
                      f[i] = D(BandEdges[b]) => i \in BinsOfBand(m, f, b)

\* C22: for a valid sampling rate and any window, every bin of the spectrum
\* compute_fft returns whose frequency is at or above 2000 Hz has its power in
\* the fifth band: the fifth sum is the power of all those bins.
C22_LastBandToNyquist ==
    (fout.op = "compute_bandpower" /\ Len(fin.window) > 0)
        => fout.ret[5] = PowerOfBins(fin.magnitudes,
                                     {i \in Bins(fin.magnitudes, fin.frequencies) :
                                         fin.frequencies[i] >= D(2000)})

\* The same for the sampling rates whose Nyquist frequency is at most 10000 Hz.
LastBandBelowItsUpperEdge ==
    (fout.op = "compute_bandpower" /\ Len(fin.window) > 0
        /\ fin.sample_rate <= D(20000))
        => fout.ret[5] = PowerOfBins(fin.magnitudes,
                                     {i \in Bins(fin.magnitudes, fin.frequencies) :
                                         fin.frequencies[i] >= D(2000)})

\* At 40000 Hz the window 1, 0, -1, 0 has all its power in the bin at 10000 Hz,
\* and compute_bandpower has returned five zeros for it.
LastBandDropsBin ==
    /\ fout.op = "compute_bandpower"
    /\ fin.window = <<D(1), 0, 0 - D(1), 0>>
    /\ fin.sample_rate = D(40000)
    /\ fin.frequencies = <<0, D(10000)>>
    /\ fin.magnitudes = <<0, D(1)>>
    /\ fout.ret = <<0, 0, 0, 0, 0>>

\* The sum of the five band powers, and whether band b has at least 90% of it.
TotalBandpower(bandpowers) == IntSum(LAMBDA b : bandpowers[b], Len(bandpowers))

HasNinetyPercent(bandpowers, b) ==
    /\ TotalBandpower(bandpowers) > 0
    /\ 10 * bandpowers[b] >= 9 * TotalBandpower(bandpowers)

BandsHolding(freq) ==
    {b \in 1..Len(FREQ_BANDS) : DGe[freq, FREQ_BANDS[b][1]] /\ DLt[freq, FREQ_BANDS[b][2]]}

\* C29: the five bands follow one another from 0 to 10000 Hz, each beginning
\* where the one before it ends, so that a frequency in [0, 10000) is in exactly
\* one of them; and for a spectrum whose frequencies all lie in [0, 10000) the
\* five band powers add up to the sum of the squared magnitudes of all bins
\* (the sums are those of the model, whose additions are exact).
C29_BandsPartition ==
    (/\ fout.op = "compute_bandpower"
     /\ \A i \in Bins(fin.magnitudes, fin.frequencies) :
            0 <= fin.frequencies[i] /\ fin.frequencies[i] < D(10000))
        => /\ Len(FREQ_BANDS) = 5
           /\ FREQ_BANDS[1][1] = 0 /\ FREQ_BANDS[5][2] = D(10000)
           /\ \A b \in 1..5 : FREQ_BANDS[b][1] < FREQ_BANDS[b][2]
           /\ \A b \in 1..4 : FREQ_BANDS[b][2] = FREQ_BANDS[b + 1][1]
           /\ \A freq \in {g \in BandFrequencies : 0 <= g /\ g < D(10000)} :
                  Cardinality(BandsHolding(freq)) = 1
           /\ \A i \in Bins(fin.magnitudes, fin.frequencies) :
                  Cardinality(BandsHolding(fin.frequencies[i])) = 1
           /\ TotalBandpower(fout.ret)
                  = PowerOfBins(fin.magnitudes, Bins(fin.magnitudes, fin.frequencies))

\* Three bins, just below 100 Hz, at 100 Hz and just below 10000 Hz, have their
\* powers 1, 4 and 1 in the first, second and fifth band.
C29_Witness ==
    /\ fout.op = "compute_bandpower"
    /\ fin.frequencies = <<D(100) - 1, D(100), D(10000) - 1>>
    /\ fin.magnitudes = <<D(1), D(2), D(1)>>
    /\ fout.ret = <<D(1), D(4), 0, 0, D(1)>>
    /\ TotalBandpower(fout.ret) = D(6)

\* ------------------------------------------------------------------ extract_all calls in threads

\* Windows the threads pass to extract_all.
ThreadWindows == {<<D(1)>>, <<D(1), 0 - D(1), 0>>}

\* Arguments the threads' owner passes to set_sample_rate.
ThreadRateArgs == {0, D(8), D(4000)}

\* The buffer x as a static of compute_fft: one for all calls.
XOf_shared(c) == 1

\* The buffer x of a call: a local of its own compute_fft activation.
XOf(c) == c

\* One extractor, constructed, that the threads share.
InitConc ==
    /\ ext = [e \in Ext |-> IF e = 1
                             THEN [alive |-> TRUE,
                                   sample_rate_ |-> FeatureExtractor(D(8)).sample_rate_]
                             ELSE NotConstructed]
    /\ lastOk = [e \in Ext |-> IF e = 1 THEN [op |-> "FeatureExtractor", arg |-> D(8)]
                                ELSE NeverSet]
    /\ last = NoCall
    /\ calls = [c \in Calls |-> IdleCall]
    /\ xbuf = [c \in Calls |-> <<>>]
    /\ fin = NoInput
    /\ fout = NoOutput

\* Thread c calls fe.extract_all(w) on extractor e: SignalFeatures features;
\* rates is what sample_rate_ has held since the call began, until the call reads it.
Begin(c, e, w) ==
    /\ calls[c].pc = "idle"
    /\ ext[e].alive
    /\ calls' = [calls EXCEPT ![c] = [pc |-> "time", ext |-> e, signal |-> w,
                                      features |-> SignalFeatures,
                                      rate_read |-> 0, set_during |-> FALSE,
                                      rates |-> {ext[e].sample_rate_}]]
    /\ UNCHANGED <<ext, lastOk, last, xbuf, fin, fout>>

\* The five time-domain assignments.
StepTime(c) ==
    /\ calls[c].pc = "time"
    /\ calls' = [calls EXCEPT ![c].features = TimeDomain(@, calls[c].signal),
                              ![c].pc = "pad"]
    /\ UNCHANGED <<ext, lastOk, last, xbuf, fin, fout>>

\* compute_fft up to the transform: the early return for an empty window, or the
\* buffer allocated, zeroed and filled.
StepPad(c) ==
    /\ calls[c].pc = "pad"
    /\ IF Len(calls[c].signal) = 0
       THEN /\ calls' = [calls EXCEPT
                            ![c].features = WithSpectrum(@, << <<>>, <<>> >>),
                            ![c].pc = "stats"]
            /\ xbuf' = xbuf
       ELSE /\ calls' = [calls EXCEPT ![c].pc = "fft"]
            /\ xbuf' = [xbuf EXCEPT ![XOf(c)] = PaddedBuffer(calls[c].signal)]
    /\ UNCHANGED <<ext, lastOk, last, fin, fout>>

\* fft_recursive(x), in place.
StepFft(c) ==
    /\ calls[c].pc = "fft"
    /\ xbuf' = [xbuf EXCEPT ![XOf(c)] = fft_recursive(@)]
    /\ calls' = [calls EXCEPT ![c].pc = "spectrum"]
    /\ UNCHANGED <<ext, lastOk, last, fin, fout>>

\* A double whose two halves come from two stores: the upper half of p over the
\* lower half of q.
TornRate(p, q) == (p \div 256) * 256 + (q % 256)

\* What the read of sample_rate_ at line 204 can give call c. With no store since
\* the call began it is the member. A store since then is a data race with the
\* read (a plain double, written at line 18): the read can give the value
\* before, a value stored, or halves of two of them.
SampleRateRead(c) == {TornRate(p, q) : p \in calls[c].rates, q \in calls[c].rates}

\* The rest of compute_fft, which reads sample_rate_ (kept in rate_read), and the
\* two assignments of its result; the buffer dies with the activation.
StepSpectrum(c) ==
    /\ calls[c].pc = "spectrum"
    /\ \E rate \in SampleRateRead(c) :
           calls' = [calls EXCEPT
                        ![c].features = WithSpectrum(@, Spectrum(xbuf[XOf(c)], rate)),
                        ![c].rate_read = rate,
                        ![c].pc = "stats"]
    /\ xbuf' = [xbuf EXCEPT ![XOf(c)] = <<>>]
    /\ UNCHANGED <<ext, lastOk, last, fin, fout>>

\* Centroid, spread, band powers and band names.
StepStats(c) ==
    /\ calls[c].pc = "stats"
    /\ calls' = [calls EXCEPT
                    ![c].features =
                        SpectralStats(@, <<calls[c].features.fft_magnitude,
                                           calls[c].features.fft_frequencies>>),
                    ![c].pc = "done"]
    /\ UNCHANGED <<ext, lastOk, last, xbuf, fin, fout>>

\* The caller has taken the record; the thread is free for another call.
Return(c) ==
    /\ calls[c].pc = "done"
    /\ calls' = [calls EXCEPT ![c] = IdleCall]
    /\ UNCHANGED <<ext, lastOk, last, xbuf, fin, fout>>

NextConc ==
    \/ \E c \in Calls, e \in Ext, w \in ThreadWindows : Begin(c, e, w)
    \/ \E c \in Calls : StepTime(c)
    \/ \E c \in Calls : StepPad(c)
    \/ \E c \in Calls : StepFft(c)
    \/ \E c \in Calls : StepSpectrum(c)
    \/ \E c \in Calls : StepStats(c)
    \/ \E c \in Calls : Return(c)
    \/ \E e \in Ext, r \in ThreadRateArgs : SetSampleRate(e, r)

SpecConc == InitConc /\ [][NextConc]_vars

\* ------------------------------------------------------------------ properties of calls in threads

\* What a call on window w computes when it runs alone: the buffer it fills, the
\* buffer transformed, and its record at each rate.
Alone ==
    [w \in ThreadWindows |->
        [padded |-> PaddedBuffer(w),
         transformed |-> fft_recursive(PaddedBuffer(w)),
         record |-> [r \in ThreadRateArgs |-> extract_all(w, r)]]]

C7_AsIfAlone ==
    \A c \in Calls :
        ~calls[c].set_during
            => /\ calls[c].pc = "fft"
                      => xbuf[XOf(c)] = Alone[calls[c].signal].padded
               /\ calls[c].pc = "spectrum"
                      => xbuf[XOf(c)] = Alone[calls[c].signal].transformed
               /\ calls[c].pc = "stats"
                      => calls[c].rate_read = ext[calls[c].ext].sample_rate_
               /\ calls[c].pc = "done"
                      => calls[c].features
                             = Alone[calls[c].signal].record[calls[c].rate_read]

\* Two calls on different windows are inside compute_fft at once, one before and
\* one after its transform.
C7_Witness ==
    \E c \in Calls, d \in Calls :
        /\ calls[c].pc = "spectrum" /\ calls[d].pc = "fft"
        /\ calls[c].ext = calls[d].ext
        /\ calls[c].signal # calls[d].signal
        /\ ~calls[c].set_during /\ ~calls[d].set_during

\* The record of a finished call is that of its window at the one value its read
\* of sample_rate_ gave.
RecordOfRateRead ==
    \A c \in Calls :
        (calls[c].pc = "done" /\ calls[c].set_during)
            => calls[c].features = extract_all(calls[c].signal, calls[c].rate_read)

RateReadIsNeither ==
    \E c \in Calls :
        /\ calls[c].pc = "done"
        /\ calls[c].rates = {D(8), D(4000)}
        /\ calls[c].rate_read \notin calls[c].rates
        /\ Len(calls[c].signal) = 3
        /\ calls[c].features.fft_frequencies
               \notin {Alone[calls[c].signal].record[r].fft_frequencies :
                           r \in calls[c].rates}

\* ------------------------------------------------------------------ the command-line tool

\* A std::string is the sequence of its characters.

IsSpace(c) == c \in {" ", "\t", "\r", "\n"}

IsDigit(c) == c \in {"0", "1", "2", "3", "4", "5", "6", "7", "8", "9"}

DigitValue(c) ==
    CASE c = "0" -> 0 [] c = "1" -> 1 [] c = "2" -> 2 [] c = "3" -> 3 [] c = "4" -> 4
      [] c = "5" -> 5 [] c = "6" -> 6 [] c = "7" -> 7 [] c = "8" -> 8 [] c = "9" -> 9

\* The number of leading characters of s that satisfy P.
RECURSIVE LeadingCount(_, _)
LeadingCount(P(_), s) ==
    IF Len(s) > 0 /\ P(Head(s)) THEN 1 + LeadingCount(P, Tail(s)) ELSE 0

\* The value of a string of decimal digits.
RECURSIVE DecimalValue(_)
DecimalValue(digits) ==
    IF Len(digits) = 0 THEN 0
    ELSE 10 * DecimalValue(SubSeq(digits, 1, Len(digits) - 1))
            + DigitValue(digits[Len(digits)])

\* std::stod: leading white space is skipped, then an optional sign and the
\* longest decimal number (digits with an optional fraction) is converted, what
\* follows it is ignored; with no number to convert it throws
\* std::invalid_argument.  (The strings of the model have no exponent, no
\* hexadecimal number and neither "inf" nor "nan".)
stod(str) ==
    LET unspaced == SubSeq(str, LeadingCount(IsSpace, str) + 1, Len(str))
        signed == Len(unspaced) > 0 /\ Head(unspaced) \in {"-", "+"}
        number == IF signed THEN Tail(unspaced) ELSE unspaced
        whole == SubSeq(number, 1, LeadingCount(IsDigit, number))
        rest == SubSeq(number, Len(whole) + 1, Len(number))
        fraction == IF Len(rest) > 0 /\ Head(rest) = "."
                    THEN SubSeq(rest, 2, 1 + LeadingCount(IsDigit, Tail(rest)))
                    ELSE <<>>
        magnitude == D(DecimalValue(whole))
                        + (DecimalValue(fraction) * Scale) \div (10 ^ Len(fraction))
    IN  IF Len(whole) = 0 /\ Len(fraction) = 0
        THEN [err |-> "invalid_argument", value |-> 0]
        ELSE [err |-> "none",
              value |-> IF signed /\ Head(unspaced) = "-" THEN 0 - magnitude ELSE magnitude]

\* The pieces std::getline(stream, piece, delimiter) reads until the stream ends:
\* the text between delimiters, with no empty piece after a final delimiter.
RECURSIVE GetLines(_, _)
GetLines(text, delimiter) ==
    IF Len(text) = 0 THEN <<>>
    ELSE LET n == LeadingCount(LAMBDA c : c # delimiter, text)
         IN  <<SubSeq(text, 1, n)>> \o GetLines(SubSeq(text, n + 2, Len(text)), delimiter)

\* value.substr(start, end - start + 1) between the first and the last character
\* that is not white space; empty when there is none.
Trimmed(value) ==
    LET start == LeadingCount(IsSpace, value) + 1
        end == Len(value) - LeadingCount(IsSpace, [k \in 1..Len(value) |->
                                                      value[Len(value) + 1 - k]])
    IN  IF start > Len(value) THEN <<>> ELSE SubSeq(value, start, end)

\* The samples of one line: each comma-separated value that stod converts, in
\* order; the values it throws on are skipped.
RECURSIVE SamplesOf(_)
SamplesOf(values) ==
    IF Len(values) = 0 THEN <<>>
    ELSE LET trimmed == Trimmed(Head(values))
             converted == stod(trimmed)
         IN  (IF Len(trimmed) > 0 /\ converted.err = "none"
              THEN <<converted.value>> ELSE <<>>)
             \o SamplesOf(Tail(values))

RECURSIVE SamplesOfLines(_)
SamplesOfLines(lines) ==
    IF Len(lines) = 0 THEN <<>>
    ELSE SamplesOf(GetLines(Head(lines), ",")) \o SamplesOfLines(Tail(lines))

\* Most arguments after the program name.
MaxArgs == 3

\* The files of the run: "a" holds a header and two samples, "h" a header only,
\* "m" does not exist, and "m/x" is in a directory that does not exist.
GoodFile == <<"a">>
HeaderFile == <<"h">>
MissingFile == <<"m">>
NoSuchDirFile == <<"m", "/", "x">>

FileText(filename) ==
    IF filename = GoodFile THEN <<"x", ",", " ", "1", "\n", "-", "1", ",">>
    ELSE <<"x", ",", " ", "\n">>

\* std::ifstream file(filename) is open
OpensForReading(filename) == filename \in {GoodFile, HeaderFile}

\* std::ofstream out(output_file) is open: the file is created unless its
\* directory does not exist.
OpensForWriting(filename) == filename # NoSuchDirFile

\* The arguments the tool is run with.
Arguments ==
    {<<"-", "h">>, <<"-", "r">>, <<"-", "-", "r", "a", "t", "e">>, <<"-", "o">>,
     <<"-", "j">>, <<"-", "x">>, GoodFile, HeaderFile, MissingFile, NoSuchDirFile,
     <<"8">>, <<"0">>}

\* read_signal without the catch around stod: a value that is not a number makes
\* the call throw std::invalid_argument.
read_signal_uncaught(filename) ==
    IF ~OpensForReading(filename)
    THEN [err |-> "runtime_error", signal |-> <<>>]
    ELSE IF \E k \in 1..Len(FileText(filename)) :
                ~IsSpace(FileText(filename)[k]) /\ ~IsDigit(FileText(filename)[k])
                    /\ FileText(filename)[k] \notin {",", "-", "."}
         THEN [err |-> "invalid_argument", signal |-> <<>>]
         ELSE [err |-> "none",
               signal |-> SamplesOfLines(GetLines(FileText(filename), "\n"))]

\* read_signal: throws std::runtime_error when the file does not open, else
\* returns the samples of its lines.
read_signal(filename) ==
    IF ~OpensForReading(filename)
    THEN [err |-> "runtime_error", signal |-> <<>>]
    ELSE [err |-> "none", signal |-> SamplesOfLines(GetLines(FileText(filename), "\n"))]

\* main's locals as it starts, in fout: pc is the place in main, i the index of
\* the next argument, parsed whether the argument loop has ended, usage whether
\* print_usage has run, out what was written
\* and where, exit_code the value returned (none yet: -1).
MainStart ==
    [op |-> "main", pc |-> "args", i |-> 1,
     sample_rate |-> D(5000), input_file |-> <<>>, output_file |-> <<>>,
     json_output |-> FALSE, parsed |-> FALSE,
     usage |-> FALSE, signal |-> <<>>, extracted |-> FALSE, features |-> SignalFeatures,
     out |-> [written |-> FALSE, to |-> <<>>, json |-> FALSE, features |-> SignalFeatures],
     exit_code |-> 0 - 1]

\* return code;
Exit(frame, code) == [frame EXCEPT !.pc = "exited", !.exit_code = code]

\* An exception leaves main: std::terminate is called and the process is ended
\* by abort (SIGABRT, wait status 134), with no exit code returned from main.
Terminate(frame) == [frame EXCEPT !.pc = "terminated", !.exit_code = 134]

InitCli ==
    /\ ext = [e \in Ext |-> NotConstructed]
    /\ lastOk = [e \in Ext |-> NeverSet]
    /\ last = NoCall
    /\ calls = [c \in Calls |-> IdleCall]
    /\ xbuf = [c \in Calls |-> <<>>]
    /\ fin \in [args : SeqsUpTo(Arguments, MaxArgs)]
    /\ fout = MainStart

\* One pass of the argument loop.
ParseArgument ==
    /\ fout.op = "main" /\ fout.pc = "args"
    /\ fout.i <= Len(fin.args)
    /\ LET arg == fin.args[fout.i]
           last_one == fout.i + 1 > Len(fin.args)
       IN  fout' =
             IF arg \in {<<"-", "h">>, <<"-", "-", "h", "e", "l", "p">>}
             THEN Exit([fout EXCEPT !.usage = TRUE], 0)
             ELSE IF arg \in {<<"-", "r">>, <<"-", "-", "r", "a", "t", "e">>}
             THEN IF last_one THEN Exit(fout, 1)
                  ELSE LET converted == stod(fin.args[fout.i + 1])
                       IN  IF converted.err # "none"
                           THEN Terminate([fout EXCEPT !.i = @ + 1])
                           ELSE [fout EXCEPT !.sample_rate = converted.value,
                                             !.i = @ + 2]
             ELSE IF arg \in {<<"-", "o">>, <<"-", "-", "o", "u", "t", "p", "u", "t">>}
             THEN IF last_one THEN Exit(fout, 1)
                  ELSE [fout EXCEPT !.output_file = fin.args[fout.i + 1], !.i = @ + 2]
             ELSE IF arg \in {<<"-", "j">>, <<"-", "-", "j", "s", "o", "n">>}
             THEN [fout EXCEPT !.json_output = TRUE, !.i = @ + 1]
             ELSE IF arg[1] = "-"
             THEN Exit([fout EXCEPT !.usage = TRUE], 1)
             ELSE [fout EXCEPT !.input_file = arg, !.i = @ + 1]
    /\ UNCHANGED <<ext, lastOk, last, calls, xbuf, fin>>

\* After the loop: if (input_file.empty())
EndOfArguments ==
    /\ fout.op = "main" /\ fout.pc = "args"
    /\ fout.i > Len(fin.args)
    /\ fout' = IF Len(fout.input_file) = 0
               THEN Exit([fout EXCEPT !.usage = TRUE, !.parsed = TRUE], 1)
               ELSE [fout EXCEPT !.pc = "read", !.parsed = TRUE]
    /\ UNCHANGED <<ext, lastOk, last, calls, xbuf, fin>>

\* if (signal.empty()) left out
NoSamples_ignored(signal) == FALSE

\* if (signal.empty())
NoSamples(signal) == Len(signal) = 0

\* signal = read_signal(input_file); an exception is caught at the end of main.
ReadSignal ==
    /\ fout.op = "main" /\ fout.pc = "read"
    /\ LET read == read_signal(fout.input_file)
       IN  fout' = IF read.err # "none" THEN Exit(fout, 1)
                   ELSE IF NoSamples(read.signal) THEN Exit(fout, 1)
                   ELSE [fout EXCEPT !.signal = read.signal, !.pc = "extract"]
    /\ UNCHANGED <<ext, lastOk, last, calls, xbuf, fin>>

\* FeatureExtractor extractor(sample_rate); features = extractor.extract_all(signal);
ExtractFeatures ==
    /\ fout.op = "main" /\ fout.pc = "extract"
    /\ LET extractor == FeatureExtractor(fout.sample_rate)
       IN  fout' = IF extractor.err # "none" THEN Exit(fout, 1)
                   ELSE [fout EXCEPT
                            !.features = extract_all(fout.signal, extractor.sample_rate_),
                            !.extracted = TRUE,
                            !.pc = "output"]
    /\ UNCHANGED <<ext, lastOk, last, calls, xbuf, fin>>

\* The record goes to std::cout or to the output file, as text or as JSON.
WriteOutput ==
    /\ fout.op = "main" /\ fout.pc = "output"
    /\ fout' = IF Len(fout.output_file) > 0 /\ ~OpensForWriting(fout.output_file)
               THEN Exit(fout, 1)
               ELSE Exit([fout EXCEPT !.out = [written |-> TRUE,
                                                to |-> fout.output_file,
                                                json |-> fout.json_output,
                                                features |-> fout.features]], 0)
    /\ UNCHANGED <<ext, lastOk, last, calls, xbuf, fin>>

NextCli ==
    \/ ParseArgument
    \/ EndOfArguments
    \/ ReadSignal
    \/ ExtractFeatures
    \/ WriteOutput

SpecCli == InitCli /\ [][NextCli]_vars

\* The arguments name an option that takes a value.
TakesValue(arg) ==
    arg \in {<<"-", "r">>, <<"-", "-", "r", "a", "t", "e">>,
             <<"-", "o">>, <<"-", "-", "o", "u", "t", "p", "u", "t">>}

\* The input file the arguments give: the last argument that is neither an
\* option nor an option's value; the empty name when there is none.
RECURSIVE InputGiven(_, _)
InputGiven(args, k) ==
    IF k > Len(args) THEN <<>>
    ELSE IF TakesValue(args[k]) THEN InputGiven(args, k + 2)
    ELSE LET later == InputGiven(args, k + 1)
         IN  IF args[k][1] = "-" \/ Len(later) > 0 THEN later ELSE args[k]

\* The output file the arguments give: the value of the last output option.
RECURSIVE OutputGiven(_, _)
OutputGiven(args, k) ==
    IF k > Len(args) THEN <<>>
    ELSE IF TakesValue(args[k])
         THEN LET later == OutputGiven(args, k + 2)
              IN  IF Len(later) > 0 THEN later
                  ELSE IF k < Len(args)
                          /\ args[k] \in {<<"-", "o">>,
                                           <<"-", "-", "o", "u", "t", "p", "u", "t">>}
                       THEN args[k + 1]
                       ELSE <<>>
         ELSE OutputGiven(args, k + 1)

\* The run has ended.
MainEnded == fout.op = "main" /\ fout.pc \in {"exited", "terminated"}

\* C23 as stated: the tool exits with 1 when the arguments give no input file,
\* when the input file or the output file they give does not open, or when the
\* input file has no numeric sample; it exits with 0 only after a record was
\* extracted and written.
C23_ExitCodes ==
    MainEnded
        => LET input_file == InputGiven(fin.args, 1)
               output_file == OutputGiven(fin.args, 1)
           IN  /\ (\/ Len(input_file) = 0
                   \/ ~OpensForReading(input_file)
                   \/ Len(read_signal(input_file).signal) = 0
                   \/ (Len(output_file) > 0 /\ ~OpensForWriting(output_file)))
                      => fout.exit_code = 1
               /\ fout.exit_code = 0 => (fout.extracted /\ fout.out.written)

\* C23 as amended: a run that reaches the end of its arguments exits with 1 when
\* no input file was given, when the input or the output file does not open, or
\* when the input file has no numeric sample (the values that are not numbers
\* are skipped: the file "a" yields its two samples), and exits with 0 when
\* none of these holds and the rate is positive; a run that ends among its
\* arguments exits with 0 at a help option, exits with 1 at an unknown option or
\* an option without its value, and is terminated by the exception of stod at a
\* rate that is not a number; every run exits with 0 only after it printed the
\* usage for a help option or extracted and wrote a record.
C23_ExitCodesAfterParsing ==
    MainEnded
        => /\ fout.exit_code = 0
                  => \/ fout.usage /\ fout.i <= Len(fin.args)
                               /\ fin.args[fout.i] = <<"-", "h">>
                     \/ /\ fout.extracted /\ fout.out.written
                        /\ fout.out.features = fout.features
                        /\ fout.features = extract_all(fout.signal, fout.sample_rate)
           /\ ~fout.parsed
                  => LET arg == fin.args[fout.i]
                     IN  \/ /\ fout.pc = "exited" /\ fout.exit_code = 0
                            /\ arg = <<"-", "h">>
                         \/ /\ fout.pc = "exited" /\ fout.exit_code = 1
                            /\ \/ TakesValue(arg) /\ fout.i = Len(fin.args)
                               \/ arg = <<"-", "x">>
                         \/ /\ fout.pc = "terminated"
                            /\ fin.args[fout.i - 1]
                                   \in {<<"-", "r">>, <<"-", "-", "r", "a", "t", "e">>}
                            /\ stod(arg).err = "invalid_argument"
           /\ fout.parsed
                  => /\ fout.pc = "exited"
                     /\ (\/ Len(fout.input_file) = 0
                         \/ ~OpensForReading(fout.input_file)
                         \/ Len(read_signal(fout.input_file).signal) = 0
                         \/ (Len(fout.output_file) > 0
                                /\ ~OpensForWriting(fout.output_file)))
                            => fout.exit_code = 1
                     /\ (/\ fout.input_file = GoodFile
                         /\ OpensForWriting(fout.output_file)
                         /\ fout.sample_rate > 0)
                            => /\ fout.exit_code = 0
                               /\ fout.signal = <<D(1), 0 - D(1)>>

\* The tool, asked for JSON, has exited with 1 for the file that holds a header
\* only.
C23_Witness ==
    /\ MainEnded
    /\ fin.args = <<<<"-", "j">>, HeaderFile>>
    /\ fout.parsed /\ fout.json_output
    /\ fout.input_file = HeaderFile
    /\ fout.exit_code = 1

\* C30: whatever the arguments, the run ends with main returning 0 or 1: every
\* failure is an exit code of 1, a rate that is not a number and a rate that is
\* not positive among them, and no exception leaves main.
C30_ExitZeroOrOne ==
    MainEnded => (fout.pc = "exited" /\ fout.exit_code \in {0, 1})

\* A run that reaches the end of its arguments does return 0 or 1 from main, and
\* 1 when the rate it was given is not positive.
ParsedRunsExitZeroOrOne ==
    (MainEnded /\ fout.parsed)
        => /\ fout.pc = "exited" /\ fout.exit_code \in {0, 1}
           /\ DLe[fout.sample_rate, 0] => fout.exit_code = 1

\* The arguments --rate a: the conversion of a at line 139 threw outside the try
\* block, and the run ended in std::terminate with no exit code from main.
RateNotANumberTerminates ==
    /\ fout.op = "main" /\ fout.pc = "terminated"
    /\ fin.args = <<(<<"-", "-", "r", "a", "t", "e">>), GoodFile>>
    /\ stod(GoodFile).err = "invalid_argument"
    /\ ~fout.parsed
    /\ fout.exit_code \notin {0, 1}

\* The arguments --rate 0 a: the constructor threw inside the try block and the
\* run returned 1.
RateZeroExitsOne ==
    /\ fout.op = "main" /\ fout.pc = "exited"
    /\ fin.args = <<(<<"-", "-", "r", "a", "t", "e">>), <<"0">>, GoodFile>>
    /\ fout.sample_rate = 0
    /\ fout.exit_code = 1

\* ------------------------------------------------------------------ the Python bindings

\* The arrays handed to the bindings: their number of dimensions, their shape and
\* their elements in memory order.  One-dimensional arrays hold a window; the
\* others are scalars (no dimension) and matrices of up to 2 x 2.
Arrays ==
    {[ndim |-> 1, shape |-> <<Len(w)>>, data |-> w] : w \in Windows}
    \cup UNION {{[ndim |-> 2, shape |-> <<r, c>>, data |-> w] :
                     w \in {v \in Windows : Len(v) = r * c}} :
                 r \in 0..2, c \in 1..2}
    \cup {[ndim |-> 0, shape |-> <<>>, data |-> <<v>>] : v \in Samples}

\* The computation methods bound with no test of the array.
UncheckedBindings ==
    {"compute_rms", "compute_peak", "compute_crest_factor", "compute_kurtosis",
     "compute_skewness", "compute_fft"}

InitBind ==
    /\ ext = [e \in Ext |-> NotConstructed]
    /\ lastOk = [e \in Ext |-> NeverSet]
    /\ last = NoCall
    /\ calls = [c \in Calls |-> IdleCall]
    /\ xbuf = [c \in Calls |-> <<>>]
    /\ fin \in [array : Arrays, sample_rate : {0, D(8)}]
    /\ fout = NoOutput

\* What a binding leaves: the error it raised, whether a method of the core ran
\* on a vector made from the array, that vector and what was returned.
Raised(binding, err) ==
    [op |-> binding, err |-> err, core |-> FALSE, vec |-> <<>>, ret |-> 0]

Computed(binding, method, sample_rate, vec) ==
    [op |-> binding, err |-> "none", core |-> TRUE, vec |-> vec,
     ret |-> Returned(method, sample_rate, vec)]

\* std::vector<double> vec(ptr, ptr + buf.shape[0]): the first shape[0] elements.
\* An array of no dimension has an empty shape and buf.shape[0] reads past its
\* end: the count is any value, and a count beyond the data ends the process.
VecCounts(array) ==
    IF array.ndim = 0 THEN 0..(Len(array.data) + 1) ELSE {array.shape[1]}

\* fe.extract_all(signal), fe an extractor constructed with fin.sample_rate
BindExtractAll ==
    /\ fout.op = "none"
    /\ FeatureExtractor(fin.sample_rate).alive
    /\ fout' = IF fin.array.ndim # 1
               THEN Raised("extract_all", "runtime_error")
               ELSE Computed("extract_all", "extract_all", fin.sample_rate,
                             SubSeq(fin.array.data, 1, fin.array.shape[1]))
    /\ UNCHANGED <<ext, lastOk, last, calls, xbuf, fin>>

\* fe.compute_rms(signal), ..., fe.compute_fft(signal)
BindCompute(method) ==
    /\ fout.op = "none"
    /\ FeatureExtractor(fin.sample_rate).alive
    /\ \E n \in VecCounts(fin.array) :
           fout' = IF n > Len(fin.array.data)
                   THEN Raised(method, "crash")
                   ELSE Computed(method, method, fin.sample_rate,
                                 SubSeq(fin.array.data, 1, n))
    /\ UNCHANGED <<ext, lastOk, last, calls, xbuf, fin>>

\* extract_features(signal, sample_rate): the extractor is constructed first.
BindExtractFeatures ==
    /\ fout.op = "none"
    /\ fout' = IF ~FeatureExtractor(fin.sample_rate).alive
               THEN Raised("extract_features", FeatureExtractor(fin.sample_rate).err)
               ELSE IF fin.array.ndim # 1
               THEN Raised("extract_features", "runtime_error")
               ELSE Computed("extract_features", "extract_all", fin.sample_rate,
                             SubSeq(fin.array.data, 1, fin.array.shape[1]))
    /\ UNCHANGED <<ext, lastOk, last, calls, xbuf, fin>>

NextBind ==
    \/ BindExtractAll
    \/ \E method \in UncheckedBindings : BindCompute(method)
    \/ BindExtractFeatures

SpecBind == InitBind /\ [][NextBind]_vars

\* C24: every binding that takes a sample array raises an error for an array
\* that is not one-dimensional, and no method of the core has run on it.
C24_OneDimensionalOnly ==
    (fout.op # "none" /\ fin.array.ndim # 1)
        => (fout.err \notin {"none", "crash"} /\ ~fout.core)

\* The same for the two bindings that test buf.ndim.
CheckedBindingsRejectArrays ==
    (fout.op \in {"extract_all", "extract_features"} /\ fin.array.ndim # 1)
        => (fout.err \notin {"none", "crash"} /\ ~fout.core)

\* compute_rms has run on the first two elements of a 2 x 2 matrix and returned
\* their root mean square.
MatrixReachesCore ==
    /\ fout.op = "compute_rms"
    /\ fin.array = [ndim |-> 2, shape |-> <<2, 2>>, data |-> <<D(1), D(1), 0, 0>>]
    /\ fout.core /\ fout.err = "none"
    /\ fout.vec = <<D(1), D(1)>>
    /\ fout.ret = D(1)

====
